---- MODULE Spec2Model ----
(***************************************************************************)
(* State-machine model of the LTO archive manager                          *)
(* (src/lto_archive_manager.py): the bundle packer, the backup             *)
(* orchestrator, the archive index and the retriever.                      *)
(*                                                                         *)
(* Sizes are in one abstract unit (the code's bytes / MB / GB are          *)
(* conversions of the same quantity); a file's content is an opaque id,    *)
(* and SHA-256 is an injective tagging of that id.                         *)
(***************************************************************************)
EXTENDS Integers, Sequences, FiniteSets, TLC

(***************************************************************************)
(* Bounds of the model.                                                    *)
(***************************************************************************)
MaxSize      == 2   \* file sizes range over 1..MaxSize
MaxThreshold == 3   \* SpecPack draws zip_threshold_mb from 1..MaxThreshold
MaxZip       == 3   \* SpecPack draws the container limit from 1..MaxZip
MaxPackRuns  == 2   \* packer invocations in one behaviour of SpecPack
MaxRuns      == 2   \* archive runs in one behaviour of Spec
MaxEdits     == 1   \* edits of source files in one behaviour of Spec
MaxRestores  == 1   \* restore operations in one behaviour of Spec
MaxFormats   == 1   \* format operations in one behaviour of SpecTapes
MaxSwaps     == 2   \* cartridge swaps in one behaviour of SpecTapes
MaxSamples   == 2   \* iterations of the _monitor loop during one transfer
MaxDay       == 2   \* days on which backups were made, in SpecSearch
MaxRows      == 2   \* rows of the Index in SpecSearch
MaxFirst     == 3   \* files of the first size in a folder of SpecAnalyze
MaxSecond    == 7   \* files of the second size in a folder of SpecAnalyze
MainThreshold == 2  \* zip_threshold_mb in Spec
MainZipLimit  == 3  \* the container limit in Spec

(***************************************************************************)
(* Paths.  A path is the sequence of its components and separators, so     *)
(* that string equality of paths is equality of sequences.                 *)
(***************************************************************************)
Sep == "\\"

P_x    == <<"x">>
P_y    == <<"y">>
P_subx == <<"sub", Sep, "x">>

PathSeq   == <<P_x, P_y, P_subx>>
UserPaths == {PathSeq[i] : i \in 1..Len(PathSeq)}

PathIdx(p) == CHOOSE i \in 1..Len(PathSeq) : PathSeq[i] = p

\* cfg.source_dir / cfg.staging_dir / cfg.lto_drive
SourceDir  == <<"C:", Sep, "Project_Raw">>
StagingDir == <<"C:", Sep, "Project_Ready_For_LTO">>

TapeDrive  == <<"D:">>

\* os.path.join(root, rel)
Join(root, rel) == root \o <<Sep>> \o rel

\* os.path.relpath(root, source) of the folder holding the file at rel
RelFolder(rel) == IF Len(rel) = 1 THEN <<".">> ELSE SubSeq(rel, 1, Len(rel) - 2)

\* the file a path names: "." components do not matter (os.path.abspath)
RECURSIVE NormPath(_)
NormPath(p) ==
    IF p = <<>> THEN <<>>
    ELSE IF Len(p) >= 2 /\ p[1] = "." /\ p[2] = Sep
           THEN NormPath(SubSeq(p, 3, Len(p)))
           ELSE <<p[1]>> \o NormPath(Tail(p))

\* os.path.basename (ntpath: both separators split)
Basename(p) == p[Len(p)]

\* zipfile.ZipInfo.__init__: os.sep in a member name becomes "/"
ZipArcName(rel) == [i \in 1..Len(rel) |-> IF rel[i] = Sep THEN "/" ELSE rel[i]]

\* f"Bundle_{zip_idx:03d}.zip"
BundleName(i) == "Bundle_" \o (IF i < 10 THEN "00" ELSE "0") \o ToString(i) \o ".zip"

BundleRel(i) == <<BundleName(i)>>

MaxBundleIdx == Len(PathSeq) + 1

BundleSeq == [i \in 1..MaxBundleIdx |-> BundleRel(i)]

BundleRels == {BundleRel(i) : i \in 1..MaxBundleIdx}

\* file.startswith("Bundle_") and file.endswith(".zip")
IsBundleFileName(name) == name \in {BundleName(i) : i \in 1..MaxBundleIdx}

(***************************************************************************)
(* Files and directory trees.  A tree is a function from the relative      *)
(* paths of the files it holds.  A file has a size, a content id (which    *)
(* also stands for its modification time: a copy keeps both, an edit       *)
(* changes both), a flag saying that reading it raises an I/O error, and,  *)
(* for a ZIP container, the sequence of its members.                       *)
(***************************************************************************)
MkFile(p, sz, b) ==
    [size |-> sz, content |-> <<"data", PathIdx(p)>>, bad |-> b, members |-> <<>>]

EmptyZip(gen) ==
    [size |-> 0, content |-> <<"zip", gen>>, bad |-> FALSE, members |-> <<>>]

EmptyTree == [p \in {} |-> MkFile(P_x, 1, FALSE)]

Put(tree, p, f) == [q \in (DOMAIN tree) \cup {p} |-> IF q = p THEN f ELSE tree[q]]

Remove(tree, p) == [q \in (DOMAIN tree) \ {p} |-> tree[q]]

SourceTrees ==
    UNION { { [p \in D |-> MkFile(p, s[p], b[p])] :
                s \in [D -> 1..MaxSize], b \in [D -> BOOLEAN] } :
            D \in SUBSET UserPaths }

\* the source trees of Spec: x and sub\x below the threshold, y at it
MainSize(p) == IF p = P_y THEN MainThreshold ELSE MainThreshold - 1

MainTrees ==
    UNION { { [p \in D |-> MkFile(p, MainSize(p), b[p])] : b \in [D -> BOOLEAN] } :
            D \in SUBSET UserPaths }

\* hashlib.sha256 over the content, hexdigest
Sha256(f) == <<"sha256", f.content, f.members>>

NoneVal == <<>>

\* no call of search_files or analyze is under way
NoCall == [fn |-> "none"]

RECURSIVE SumSizes(_, _)
SumSizes(tree, S) ==
    IF S = {} THEN 0
    ELSE LET p == CHOOSE q \in S : TRUE IN tree[p].size + SumSizes(tree, S \ {p})

VARIABLES
    source,               \* the tree under cfg.source_dir
    walkOrder,            \* the order in which os.walk lists the user paths
    zip_threshold_mb,     \* cfg.zip_threshold_mb
    max_zip_size_mb,      \* cfg.max_zip_size_gb, in the unit of sizes
    staging,              \* the tree under cfg.staging_dir
    tape,                 \* the tree on the mounted medium, by absolute path
    volume_label,         \* get_volume_label(cfg.lto_drive)
    tapes,                \* Index: table tapes, volume_label -> row
    files_index,          \* Index: table files_index, in insertion order
    restore_dir,          \* the tree under cfg.restore_dir
    pc,                   \* where the program is
    choice,               \* the operator's answer to the packer's prompt
    metadata,             \* LTOPacker.run: metadata
    zip_idx,              \* LTOPacker.run: zip_idx
    current_zip_size,     \* LTOPacker.run: current_zip_size
    files_in_current_zip, \* LTOPacker.run: files_in_current_zip
    walkPos,              \* LTOPacker.run: position of the os.walk loop
    packGen,              \* number of packing passes so far (stamps the ZIPs)
    packer_ret,           \* the value LTOPacker.run returned
    bk_source,            \* LTOBackup.run: source
    packer_metadata,      \* LTOBackup.run: packer_metadata
    tape_label,           \* LTOBackup.run: tape_label
    hash_map,             \* LTOBackup.run: hash_map, in insertion order
    skipped,              \* LTOBackup.run: the files counted in skipped
    rc,                   \* LTOBackup.run: the transfer's outcome (rc, rc_sum)
    log,                  \* the log lines of the current operation
    cur_run,              \* history: the Index and source when this run began
    prev_run,             \* history: the archive run that finished before
    prev_pack,            \* history: what the previous fresh pass produced
    last_restore,         \* history: the last restore operation
    counters,             \* history: operations so far, by kind
    shelf,                \* the cartridge that is not in the drive
    pending,              \* LTORetriever._restore_many: the tape groups left
    mon,                  \* LTOBackup.run: stop_evt and the _monitor thread
    tools,                \* the external programs that are installed
    call                  \* a call of search_files or analyze and what it returned

config == <<walkOrder, zip_threshold_mb, max_zip_size_mb>>

packerLocals == <<metadata, zip_idx, current_zip_size, files_in_current_zip, walkPos>>

backupLocals == <<bk_source, packer_metadata, tape_label, hash_map, skipped, rc>>

indexVars == <<tapes, files_index>>

\* the other cartridge, the bulk restore's loop, the monitor thread, the
\* installed programs and the call under way
sideVars == <<shelf, pending, mon, tools, call>>

vars == <<source, config, staging, tape, volume_label, indexVars, restore_dir,
          pc, choice, packerLocals, packGen, packer_ret, backupLocals, log,
          cur_run, prev_run, prev_pack, last_restore, counters, sideVars>>

\* what no step of LTOPacker.run touches
outsidePacker == <<source, config, tape, volume_label, indexVars, restore_dir,
                   backupLocals, cur_run, prev_run, last_restore, sideVars>>

\* os.walk(tree root): the files present, in listing order
PresentIn(tree, order) ==
    LET Present(p) == p \in DOMAIN tree IN SelectSeq(order, Present)

WalkOrders == { <<P_x, P_y, P_subx>>, <<P_y, P_x, P_subx>> }

\* the return values of LTOPacker.run
RetNone    == [none |-> TRUE,  list |-> <<>>]
RetList(l) == [none |-> FALSE, list |-> l]

(***************************************************************************)
(* LTOPacker.run                                                           *)
(***************************************************************************)

\* a variant of PackerOpenFirst that numbers the first container after the last
\* one of the pass before
PackerOpenFirstKeepIdx(stg) ==
    /\ packGen' = packGen + 1
    /\ staging' = Put(stg, BundleRel(zip_idx), EmptyZip(packGen + 1))
    /\ metadata' = <<>>
    /\ zip_idx' = zip_idx
    /\ current_zip_size' = 0
    /\ files_in_current_zip' = 0
    /\ walkPos' = 1
    /\ pc' = "packing"
    /\ UNCHANGED packer_ret

\* lines 482-491: makedirs, open Bundle_001.zip, reset the counters
PackerOpenFirst(stg) ==
    /\ packGen' = packGen + 1
    /\ staging' = Put(stg, BundleRel(1), EmptyZip(packGen + 1))
    /\ metadata' = <<>>
    /\ zip_idx' = 1
    /\ current_zip_size' = 0
    /\ files_in_current_zip' = 0
    /\ walkPos' = 1
    /\ pc' = "packing"
    /\ UNCHANGED packer_ret

\* lines 468-492 with an empty (or missing) staging directory: no prompt
PackerStartClean ==
    /\ pc = "pack"
    /\ DOMAIN staging = {}
    /\ choice' = ""
    /\ PackerOpenFirst(staging)
    /\ UNCHANGED <<outsidePacker, log, prev_pack, counters>>

\* a variant of PackerPrompt whose answer 2 returns the metadata of the pass
\* before instead of the empty list
PackerPromptStale(c) ==
    /\ pc = "pack"
    /\ DOMAIN staging # {}
    /\ choice' = c
    /\ IF c = "2"
         THEN /\ packer_ret' = RetList(metadata)
              /\ pc' = "packed"
              /\ UNCHANGED <<staging, packerLocals, packGen>>
         ELSE IF c = "1"
         THEN PackerOpenFirst(EmptyTree)
         ELSE /\ packer_ret' = RetNone
              /\ pc' = "packed"
              /\ UNCHANGED <<staging, packerLocals, packGen>>
    /\ UNCHANGED <<outsidePacker, log, prev_pack, counters>>

\* lines 468-480: staging is not empty, the operator is asked
PackerPrompt(c) ==
    /\ pc = "pack"
    /\ DOMAIN staging # {}
    /\ choice' = c
    /\ IF c = "2"
         THEN /\ packer_ret' = RetList(<<>>)
              /\ pc' = "packed"
              /\ UNCHANGED <<staging, packerLocals, packGen>>
         ELSE IF c = "1"
         THEN PackerOpenFirst(EmptyTree)
         ELSE /\ packer_ret' = RetNone
              /\ pc' = "packed"
              /\ UNCHANGED <<staging, packerLocals, packGen>>
    /\ UNCHANGED <<outsidePacker, log, prev_pack, counters>>

PackerStartPrompt == \E c \in {"1", "2", "other"} : PackerPrompt(c)

\* the file the os.walk loop is at
CurPath == PresentIn(source, walkOrder)[walkPos]

\* line 503
IsSmall(f) == f.size < zip_threshold_mb

\* line 505: current_zip_size + fsize > max_zip_size_gb * 1024**3 * 0.99
MustRollOver(f) == 100 * (current_zip_size + f.size) > 99 * max_zip_size_mb

\* lines 505-514: the container the file goes to, after a roll-over if needed
RollIdx(f)   == IF MustRollOver(f) THEN zip_idx + 1 ELSE zip_idx
RollSize(f)  == IF MustRollOver(f) THEN 0 ELSE current_zip_size
RollCount(f) == IF MustRollOver(f) THEN 0 ELSE files_in_current_zip
RollStaging(f) ==
    IF MustRollOver(f)
      THEN Put(staging, BundleRel(zip_idx + 1), EmptyZip(packGen))
      ELSE staging

\* zipf.open(rel, 'w') ... zdst.write(buf): one more member in the container
ZipAppend(z, rel, f) ==
    [z EXCEPT !.members = Append(@, [name |-> ZipArcName(rel),
                                     content |-> f.content, size |-> f.size]),
              !.size = @ + f.size]

\* lines 528-536: the metadata entry of a packed file
PackedEntry(p, f, i) ==
    [file_name       |-> Basename(p),
     original_path   |-> Join(SourceDir, p),
     file_size_bytes |-> f.size,
     file_hash       |-> Sha256(f),
     is_packed       |-> TRUE,
     container_name  |-> BundleRel(i),
     stored_path     |-> p]

\* lines 547-554: the metadata entry of a loose file (it has no file_hash)
LooseEntry(p, f) ==
    [file_name       |-> Basename(p),
     original_path   |-> Join(SourceDir, p),
     file_size_bytes |-> f.size,
     file_hash       |-> NoneVal,
     is_packed       |-> FALSE,
     container_name  |-> NoneVal,
     stored_path     |-> p]

\* lines 503-539: a file below the threshold is hashed into the open container
PackerPackSmall ==
    /\ pc = "packing"
    /\ walkPos <= Len(PresentIn(source, walkOrder))
    /\ LET p == CurPath
           f == source[p]
           i == RollIdx(f)
           stg == RollStaging(f)
       IN /\ IsSmall(f)
          /\ ~f.bad
          /\ staging' = Put(stg, BundleRel(i), ZipAppend(stg[BundleRel(i)], p, f))
          /\ zip_idx' = i
          /\ current_zip_size' = RollSize(f) + f.size
          /\ files_in_current_zip' = RollCount(f) + 1
          /\ metadata' = Append(metadata, PackedEntry(p, f, i))
    /\ walkPos' = walkPos + 1
    /\ UNCHANGED <<outsidePacker, pc, choice, packGen, packer_ret, log,
                   prev_pack, counters>>

\* a variant of PackerStageLoose that stages the file and appends no entry
PackerStageLooseNoEntry ==
    /\ pc = "packing"
    /\ walkPos <= Len(PresentIn(source, walkOrder))
    /\ LET p == CurPath
           f == source[p]
       IN /\ ~IsSmall(f)
          /\ ~f.bad
          /\ staging' = Put(staging, p, f)
    /\ walkPos' = walkPos + 1
    /\ UNCHANGED <<outsidePacker, pc, choice, metadata, zip_idx, current_zip_size,
                   files_in_current_zip, packGen, packer_ret, log, prev_pack,
                   counters>>

\* lines 541-556: a file at or above the threshold is copied loose
PackerStageLoose ==
    /\ pc = "packing"
    /\ walkPos <= Len(PresentIn(source, walkOrder))
    /\ LET p == CurPath
           f == source[p]
       IN /\ ~IsSmall(f)
          /\ ~f.bad
          /\ staging' = Put(staging, p, f)
          /\ metadata' = Append(metadata, LooseEntry(p, f))
    /\ walkPos' = walkPos + 1
    /\ UNCHANGED <<outsidePacker, pc, choice, zip_idx, current_zip_size,
                   files_in_current_zip, packGen, packer_ret, log, prev_pack,
                   counters>>

\* lines 558-559: reading or copying the file raised; it is logged and left out.
\* For a small file the roll-over of lines 505-512 has already happened.
PackerFileError ==
    /\ pc = "packing"
    /\ walkPos <= Len(PresentIn(source, walkOrder))
    /\ LET p == CurPath
           f == source[p]
       IN /\ f.bad
          /\ log' = log \cup {<<"ERROR", Basename(p)>>}
          /\ IF IsSmall(f)
               THEN /\ staging' = RollStaging(f)
                    /\ zip_idx' = RollIdx(f)
                    /\ current_zip_size' = RollSize(f)
                    /\ files_in_current_zip' = RollCount(f)
               ELSE UNCHANGED <<staging, zip_idx, current_zip_size,
                                files_in_current_zip>>
    /\ walkPos' = walkPos + 1
    /\ UNCHANGED <<outsidePacker, pc, choice, metadata, packGen, packer_ret,
                   prev_pack, counters>>

\* lines 561-570: seal the last container, or remove it when it is empty
PackerFinish ==
    /\ pc = "packing"
    /\ walkPos > Len(PresentIn(source, walkOrder))
    /\ staging' = IF files_in_current_zip > 0
                    THEN staging
                    ELSE Remove(staging, BundleRel(zip_idx))
    /\ packer_ret' = RetList(metadata)
    /\ pc' = "packed"
    /\ UNCHANGED <<outsidePacker, choice, packerLocals, packGen, log, prev_pack,
                   counters>>

\* whether the pass that just returned packed from a cleared staging area
FreshPass == choice \in {"", "1"}

\* the containers of a tree, each with the names of its members in order
Containers(tree) ==
    [b \in (DOMAIN tree) \cap BundleRels |->
        [k \in 1..Len(tree[b].members) |-> tree[b].members[k].name]]

\* the packer is invoked again on the same source tree
PackerInvokeAgain ==
    /\ pc = "packed"
    /\ counters.packs < MaxPackRuns
    /\ counters' = [counters EXCEPT !.packs = @ + 1]
    /\ prev_pack' = IF FreshPass /\ ~packer_ret.none
                      THEN [valid |-> TRUE, metadata |-> packer_ret.list,
                            containers |-> Containers(staging)]
                      ELSE prev_pack
    /\ log' = {}
    /\ pc' = "pack"
    /\ UNCHANGED <<outsidePacker, staging, choice, packerLocals, packGen,
                   packer_ret>>

(***************************************************************************)
(* DatabaseManager                                                         *)
(***************************************************************************)

\* a delete_tape that removes the tape's row and leaves the rows of its files
delete_tape_filesKept(idx, label) == idx

\* DatabaseManager.delete_tape, line 309: the rows of the tape's files
delete_tape_files(idx, label) ==
    LET Other(r) == r.tape_label # label IN SelectSeq(idx, Other)

\* DatabaseManager.delete_tape, line 310: the tape's row
delete_tape(tbl, label) == [l \in (DOMAIN tbl) \ {label} |-> tbl[l]]

\* DatabaseManager.tape_exists
tape_exists(tbl, label) == label \in DOMAIN tbl

\* DatabaseManager.register_tape: the INSERT fails on a label already there
register_tape(tbl, label) ==
    IF label \in DOMAIN tbl
      THEN tbl
      ELSE [l \in (DOMAIN tbl) \cup {label} |->
              IF l = label THEN [used_space |-> 0] ELSE tbl[l]]

\* an update that stores the bytes of the run instead of adding them
update_tape_used_spaceSet(tbl, label, bytes_added) ==
    [l \in DOMAIN tbl |->
        IF l = label THEN [tbl[l] EXCEPT !.used_space = bytes_added]
                     ELSE tbl[l]]

\* DatabaseManager.update_tape_used_space
update_tape_used_space(tbl, label, bytes_added) ==
    [l \in DOMAIN tbl |->
        IF l = label THEN [tbl[l] EXCEPT !.used_space = @ + bytes_added]
                     ELSE tbl[l]]

\* DatabaseManager.insert_file, for a sequence of rows
insert_files(idx, rows) == idx \o rows

NoTapes == [l \in {} |-> [used_space |-> 0]]

(***************************************************************************)
(* run_archiver and LTOBackup.run                                          *)
(***************************************************************************)

\* line 616: os.path.join(tape_drive, os.path.basename(source))
TapeRoot(src) == Join(TapeDrive, <<Basename(src)>>)

\* lines 637-641: dst = join(join(tape_root, rel_folder), file)
DstOf(src, rel) == Join(Join(TapeRoot(src), RelFolder(rel)), <<Basename(rel)>>)

\* the tree a backup run walks
TreeOf(src) == IF src = SourceDir THEN source ELSE staging

\* os.walk over a tree that may hold containers
FullWalk(tree) == PresentIn(tree, BundleSeq \o walkOrder)

\* the programs the code starts with subprocess: robocopy (lines 86, 706) and
\* the LTFS commands of LTFS_DIR (lines 590, 1068)
ToolNames == {"robocopy", "LtfsCmdFormat.exe", "LtfsCmdEject.exe"}

NoRc == [returncode |-> 0, bytes_copied |-> 0, copied |-> {}, failed |-> {}]

NoRun == [valid |-> FALSE, source |-> SourceDir, complete |-> FALSE,
          tree |-> EmptyTree, label |-> "", has_metadata |-> FALSE]

\* LTOBackup.run lines 605-634: the arguments and the empty hash_map
BackupBegin(src, md, label) ==
    /\ bk_source' = src
    /\ packer_metadata' = md
    /\ tape_label' = label
    /\ hash_map' = <<>>
    /\ skipped' = {}
    /\ rc' = NoRc
    /\ pc' = "scan"

\* run_archiver lines 1192-1222, 1234-1237: the tape in the drive is detected
\* and registered if it is not yet, and mode 2 starts a direct backup
ArchiverDirect ==
    /\ pc = "menu"
    /\ counters.runs < MaxRuns
    /\ tapes' = register_tape(tapes, volume_label)
    /\ log' = {}
    /\ BackupBegin(SourceDir, RetNone, volume_label)
    /\ cur_run' = [n0 |-> Len(files_index), used0 |-> tapes'[volume_label].used_space,
                   packed |-> FALSE]
    /\ UNCHANGED <<source, config, staging, tape, volume_label, files_index,
                   restore_dir, choice, packerLocals, packGen, packer_ret,
                   prev_run, prev_pack, last_restore, counters>>
    /\ UNCHANGED sideVars

\* run_archiver lines 1192-1226: the same, and mode 1 calls the packer
ArchiverAutoPilot ==
    /\ pc = "menu"
    /\ counters.runs < MaxRuns
    /\ tapes' = register_tape(tapes, volume_label)
    /\ tape_label' = volume_label
    /\ log' = {}
    /\ pc' = "pack"
    /\ UNCHANGED <<source, config, staging, tape, volume_label, files_index,
                   restore_dir, choice, packerLocals, packGen, packer_ret,
                   bk_source, packer_metadata, hash_map, skipped, rc,
                   cur_run, prev_run, prev_pack, last_restore, counters>>
    /\ UNCHANGED sideVars

\* run_archiver lines 1227-1232: the packer returned a list, the backup starts
ArchiverPacked ==
    /\ pc = "packed"
    /\ ~packer_ret.none
    /\ BackupBegin(StagingDir, packer_ret, tape_label)
    /\ cur_run' = [n0 |-> Len(files_index), used0 |-> tapes[tape_label].used_space,
                   packed |-> FreshPass]
    /\ UNCHANGED <<source, config, staging, tape, volume_label, indexVars,
                   restore_dir, choice, packerLocals, packGen, packer_ret, log,
                   prev_run, prev_pack, last_restore, counters>>
    /\ UNCHANGED sideVars

\* run_archiver lines 1227-1229: the packer returned None, the archiver returns
ArchiverAborted ==
    /\ pc = "packed"
    /\ packer_ret.none
    /\ pc' = "menu"
    /\ counters' = [counters EXCEPT !.runs = @ + 1]
    /\ prev_run' = NoRun
    /\ UNCHANGED <<source, config, staging, tape, volume_label, indexVars,
                   restore_dir, choice, packerLocals, packGen, packer_ret,
                   backupLocals, log, cur_run, prev_pack, last_restore>>
    /\ UNCHANGED sideVars

\* lines 644-650: the file is on the tape already, at the same size
AlreadyOnTape(src, rel) ==
    /\ NormPath(DstOf(src, rel)) \in DOMAIN tape
    /\ TreeOf(src)[rel].size = tape[NormPath(DstOf(src, rel))].size

\* lines 651-660: the files that get hashed (hashing a bad file raises)
IsHashed(src, rel) == ~AlreadyOnTape(src, rel) /\ ~TreeOf(src)[rel].bad

\* lines 657-658
HashEntry(src, rel) ==
    [rel_path |-> rel,
     hash     |-> Sha256(TreeOf(src)[rel]),
     fsize    |-> TreeOf(src)[rel].size,
     src      |-> Join(src, rel),
     dst      |-> DstOf(src, rel)]

\* Phase 1, lines 636-660: change detection and hashing
BackupScan ==
    /\ pc = "scan"
    /\ LET tree == TreeOf(bk_source)
           Hashed(rel) == IsHashed(bk_source, rel)
           hashed == SelectSeq(FullWalk(tree), Hashed)
       IN /\ hash_map' = [k \in 1..Len(hashed) |-> HashEntry(bk_source, hashed[k])]
          /\ skipped' = {rel \in DOMAIN tree : AlreadyOnTape(bk_source, rel)}
          /\ log' = log \cup
                { <<"WARN", Basename(rel)>> :
                    rel \in {r \in DOMAIN tree :
                               ~AlreadyOnTape(bk_source, r) /\ tree[r].bad} }
    /\ pc' = "hashed"
    /\ UNCHANGED <<source, config, staging, tape, volume_label, indexVars,
                   restore_dir, choice, packerLocals, packGen, packer_ret,
                   bk_source, packer_metadata, tape_label, rc, cur_run,
                   prev_run, prev_pack, last_restore, counters>>
    /\ UNCHANGED sideVars

\* where robocopy <source> <tape_root> /E puts the file at rel
RoboDst(src, rel) == NormPath(Join(TapeRoot(src), rel))

\* robocopy copies a file that is missing at the destination or differs from
\* it in size or time stamp, and skips the others
NeedsCopy(src, rel) ==
    LET d == RoboDst(src, rel)
    IN \/ d \notin DOMAIN tape
       \/ tape[d].size # TreeOf(src)[rel].size
       \/ tape[d].content # TreeOf(src)[rel].content

\* the medium after robocopy copied the files in `copied`
TapeAfterCopy(src, copied) ==
    [d \in (DOMAIN tape) \cup {RoboDst(src, rel) : rel \in copied} |->
        IF \E rel \in copied : RoboDst(src, rel) = d
          THEN [TreeOf(src)[CHOOSE rel \in copied : RoboDst(src, rel) = d]
                    EXCEPT !.bad = FALSE]
          ELSE tape[d]]

\* robocopy's exit code: bit 1 files copied, bit 8 some copies failed
RoboExit(copied, failed) ==
    (IF copied # {} THEN 1 ELSE 0) + (IF failed # {} THEN 8 ELSE 0)

\* lines 706-716 and 721-726: one robocopy call; each file it has to copy is
\* copied or fails after the retries
Robocopy ==
    LET todo == {rel \in DOMAIN TreeOf(bk_source) : NeedsCopy(bk_source, rel)}
    IN \E failed \in SUBSET todo :
         /\ tape' = TapeAfterCopy(bk_source, todo \ failed)
         /\ rc' = [returncode   |-> RoboExit(todo \ failed, failed),
                   bytes_copied |-> SumSizes(TreeOf(bk_source), todo \ failed),
                   copied       |-> todo \ failed,
                   failed       |-> failed]

\* Phase 2, lines 684-726, when robocopy returns and the monitor thread ends
\* within the join
BackupTransfer ==
    /\ pc = "hashed"
    /\ Robocopy
    /\ pc' = "transferred"
    /\ UNCHANGED <<source, config, staging, volume_label, indexVars,
                   restore_dir, choice, packerLocals, packGen, packer_ret,
                   bk_source, packer_metadata, tape_label, hash_map, skipped,
                   log, cur_run, prev_run, prev_pack, last_restore, counters>>
    /\ UNCHANGED sideVars

\* lines 1344-1348: the operator interrupts the run when robocopy has copied
\* some of the files and the Index is not yet written; the process ends and is
\* started again
BackupInterrupt ==
    /\ pc = "transferred"
    /\ pc' = "menu"
    /\ counters' = [counters EXCEPT !.runs = @ + 1]
    /\ prev_run' = NoRun
    /\ UNCHANGED <<source, config, staging, tape, volume_label, indexVars,
                   restore_dir, choice, packerLocals, packGen, packer_ret,
                   backupLocals, log, cur_run, prev_pack, last_restore>>
    /\ UNCHANGED sideVars

\* lines 619-624: meta_by_rel has the loose entries, by stored_path
InMetaByRel(md, rel) ==
    md # <<>> /\ \E i \in 1..Len(md) : ~md[i].is_packed /\ md[i].stored_path = rel

MetaByRel(md, rel) ==
    md[CHOOSE i \in 1..Len(md) :
         /\ ~md[i].is_packed /\ md[i].stored_path = rel
         /\ \A j \in 1..Len(md) :
              (~md[j].is_packed /\ md[j].stored_path = rel) => j <= i]

\* a direct row that names its destination as its container
DirectRowInContainer(info, label, date) ==
    [file_name       |-> Basename(info.src),
     original_path   |-> info.src,
     file_size_bytes |-> info.fsize,
     file_hash       |-> info.hash,
     backup_date     |-> date,
     tape_label      |-> label,
     is_packed       |-> FALSE,
     container_name  |-> info.dst,
     stored_path     |-> info.dst]

\* lines 733-741: the row of a hashed file in a direct backup
DirectRow(info, label, date) ==
    [file_name       |-> Basename(info.src),
     original_path   |-> info.src,
     file_size_bytes |-> info.fsize,
     file_hash       |-> info.hash,
     backup_date     |-> date,
     tape_label      |-> label,
     is_packed       |-> FALSE,
     container_name  |-> NoneVal,
     stored_path     |-> info.dst]

\* lines 749-758: the row of a hashed loose file in a staged backup
StagedLooseRow(info, m, label, date) ==
    [file_name       |-> Basename(info.src),
     original_path   |-> m.original_path,
     file_size_bytes |-> info.fsize,
     file_hash       |-> info.hash,
     backup_date     |-> date,
     tape_label      |-> label,
     is_packed       |-> FALSE,
     container_name  |-> NoneVal,
     stored_path     |-> info.dst]

\* lines 761-771: the row of a packed entry
PackedRow(m, src, label, date) ==
    [file_name       |-> m.file_name,
     original_path   |-> m.original_path,
     file_size_bytes |-> m.file_size_bytes,
     file_hash       |-> m.file_hash,
     backup_date     |-> date,
     tape_label      |-> label,
     is_packed       |-> TRUE,
     container_name  |-> Join(TapeRoot(src), m.container_name),
     stored_path     |-> m.stored_path]

\* lines 731-774: the rows Phase 3 inserts, in order
NewRows(hm, pm, src, label, date) ==
    IF pm.none
      THEN [k \in 1..Len(hm) |-> DirectRow(hm[k], label, date)]
    ELSE IF pm.list # <<>>
      THEN LET Loose(info) == /\ ~IsBundleFileName(Basename(info.src))
                              /\ InMetaByRel(pm.list, info.rel_path)
               Packed(m) == m.is_packed
               loose  == SelectSeq(hm, Loose)
               packed == SelectSeq(pm.list, Packed)
           IN [k \in 1..Len(loose) |->
                  StagedLooseRow(loose[k], MetaByRel(pm.list, loose[k].rel_path),
                                 label, date)]
              \o [k \in 1..Len(packed) |-> PackedRow(packed[k], src, label, date)]
    ELSE <<>>

\* Phase 3, lines 731-774: the Index rows of this run
BackupReconcile ==
    /\ pc = "transferred"
    /\ files_index' = insert_files(files_index,
                         NewRows(hash_map, packer_metadata, bk_source,
                                 tape_label, counters.runs + 1))
    /\ pc' = "reconciled"
    /\ UNCHANGED <<source, config, staging, tape, volume_label, tapes,
                   restore_dir, choice, packerLocals, packGen, packer_ret,
                   backupLocals, log, cur_run, prev_run, prev_pack,
                   last_restore, counters>>
    /\ UNCHANGED sideVars

\* lines 776-777: used-space accounting
BackupAccount ==
    /\ pc = "reconciled"
    /\ tapes' = IF rc.bytes_copied > 0
                  THEN update_tape_used_space(tapes, tape_label, rc.bytes_copied)
                  ELSE tapes
    /\ pc' = "accounted"
    /\ UNCHANGED <<source, config, staging, tape, volume_label, files_index,
                   restore_dir, choice, packerLocals, packGen, packer_ret,
                   backupLocals, log, cur_run, prev_run, prev_pack,
                   last_restore, counters>>
    /\ UNCHANGED sideVars

\* eject_tape, lines 593-603: what LtfsCmdEject.exe can end with
EjectOutcomes ==
    IF "LtfsCmdEject.exe" \in tools
      THEN {<<"LTO", "ejected">>, <<"ERROR", "eject">>}
      ELSE {<<"ERROR", "LtfsCmdEject.exe not found">>}

\* a run that leaves the tape in the drive after a failing transfer
BackupEjectUnlessFailed ==
    /\ pc = "accounted"
    /\ IF rc.returncode >= 8
         THEN /\ UNCHANGED log
              /\ counters' = [counters EXCEPT !.runs = @ + 1]
         ELSE /\ \E out \in EjectOutcomes : log' = log \cup {out}
              /\ counters' = [counters EXCEPT !.runs = @ + 1, !.ejects = @ + 1]
    /\ prev_run' = [valid        |-> TRUE,
                    source       |-> bk_source,
                    complete     |-> rc.failed = {},
                    tree         |-> source,
                    label        |-> tape_label,
                    has_metadata |-> packer_metadata.list # <<>>]
    /\ pc' = "menu"
    /\ UNCHANGED <<source, config, staging, tape, volume_label, indexVars,
                   restore_dir, choice, packerLocals, packGen, packer_ret,
                   backupLocals, cur_run, prev_pack, last_restore>>
    /\ UNCHANGED sideVars

\* line 797 and eject_tape, lines 583-603: the eject succeeds, fails or cannot
\* start; either way the run returns.  The operator puts the tape back for the
\* next run.
BackupEject ==
    /\ pc = "accounted"
    /\ \E out \in EjectOutcomes :
         log' = log \cup {out}
    /\ counters' = [counters EXCEPT !.runs = @ + 1, !.ejects = @ + 1]
    /\ prev_run' = [valid        |-> TRUE,
                    source       |-> bk_source,
                    complete     |-> rc.failed = {},
                    tree         |-> source,
                    label        |-> tape_label,
                    has_metadata |-> packer_metadata.list # <<>>]
    /\ pc' = "menu"
    /\ UNCHANGED <<source, config, staging, tape, volume_label, indexVars,
                   restore_dir, choice, packerLocals, packGen, packer_ret,
                   backupLocals, cur_run, prev_pack, last_restore>>
    /\ UNCHANGED sideVars

\* between runs the operator edits a source file: new content, any size
ModifySource ==
    /\ pc = "menu"
    /\ counters.runs > 0
    /\ counters.edits < MaxEdits
    /\ \E p \in DOMAIN source, sz \in 1..MaxSize :
         source' = [source EXCEPT ![p] =
                      [@ EXCEPT !.size = sz,
                                !.content = <<"data", PathIdx(p)
                                     + Len(PathSeq) * (counters.edits + 1)>>]]
    /\ counters' = [counters EXCEPT !.edits = @ + 1]
    /\ UNCHANGED <<config, staging, tape, volume_label, indexVars, restore_dir,
                   pc, choice, packerLocals, packGen, packer_ret, backupLocals,
                   log, cur_run, prev_run, prev_pack, last_restore>>
    /\ UNCHANGED sideVars

(***************************************************************************)
(* LTORetriever: restoring one record                                      *)
(***************************************************************************)

\* the file a ZIP member extracts to
Extracted(m) == [size |-> m.size, content |-> m.content, bad |-> FALSE,
                 members |-> <<>>]

\* _restore_loose, lines 944-952.  _robocopy_file copies the file when it is
\* on the medium; when it is not, os.path.getsize(src) (line 83) raises.
RestoreLoose(rec) ==
    LET src == NormPath(rec.stored_path)
    IN IF src \in DOMAIN tape
         THEN [dir     |-> Put(restore_dir, <<rec.file_name>>, tape[src]),
               staging |-> staging,
               outcome |-> "saved"]
         ELSE [dir |-> restore_dir, staging |-> staging, outcome |-> "raised"]

\* a variant of Candidates that lists the matching members last to first
CandidatesReversed(members, rec) ==
    LET Match(m) == \/ m.name = rec.stored_path
                    \/ Basename(m.name) = rec.file_name
        c == SelectSeq(members, Match)
    IN [k \in 1..Len(c) |-> c[Len(c) + 1 - k]]

\* lines 971-973 and 1006-1008: the members that match the record
Candidates(members, rec) ==
    LET Match(m) == \/ m.name = rec.stored_path
                    \/ Basename(m.name) = rec.file_name
    IN SelectSeq(members, Match)

\* _restore_packed, lines 954-989: the container is copied to the staging
\* directory, candidates[0] is extracted, the copy is removed
RestorePacked(rec) ==
    LET zip == NormPath(rec.container_name)
        local_zip == <<Basename(rec.container_name)>>
    IN IF zip \notin DOMAIN tape
         THEN [dir |-> restore_dir, staging |-> staging, outcome |-> "raised"]
         ELSE LET cands == Candidates(tape[zip].members, rec)
              IN IF cands = <<>>
                   THEN [dir     |-> restore_dir,
                         staging |-> Remove(staging, local_zip),
                         outcome |-> "notfound"]
                   ELSE [dir     |-> Put(restore_dir, <<rec.file_name>>,
                                         Extracted(cands[1])),
                         staging |-> Remove(staging, local_zip),
                         outcome |-> "saved"]

\* the restore history: valid after a single restore (rec, outcome, the member
\* extracted and the namelist it was chosen from), bulk after a bulk restore
\* (recs, outcome, the containers copied from the medium, in order, and for
\* each tape group served the label it needed and the label that was mounted,
\* and the line printed for each record: [OK] with the result of
\* _verify_restored_hash, or [ERROR] not found)
NoRestore == [valid |-> FALSE, rec |-> 0, outcome |-> "", member |-> NoneVal,
              names |-> <<>>, bulk |-> FALSE, recs |-> <<>>, transfers |-> <<>>,
              served |-> <<>>, report |-> <<>>]

\* the names of the members, in the order of zf.namelist()
NameList(members) == [k \in 1..Len(members) |-> members[k].name]

\* what a single restore extracted: candidates[0], or nothing
ExtractedMember(rec) ==
    IF rec.is_packed /\ NormPath(rec.container_name) \in DOMAIN tape
                    /\ Candidates(tape[NormPath(rec.container_name)].members, rec) # <<>>
      THEN Candidates(tape[NormPath(rec.container_name)].members, rec)[1].name
      ELSE NoneVal

\* the namelist a single restore looked at
SeenNames(rec) ==
    IF rec.is_packed /\ NormPath(rec.container_name) \in DOMAIN tape
      THEN NameList(tape[NormPath(rec.container_name)].members)
      ELSE <<>>

\* LTORetriever.run lines 886-901: the operator picks one file id; the right
\* tape is in the drive
RestoreOne ==
    /\ pc = "menu"
    /\ counters.restores < MaxRestores
    /\ \E i \in 1..Len(files_index) :
         LET rec == files_index[i]
             res == IF rec.is_packed THEN RestorePacked(rec) ELSE RestoreLoose(rec)
         IN /\ rec.tape_label = volume_label
            /\ restore_dir' = res.dir
            /\ staging' = res.staging
            /\ last_restore' = [NoRestore EXCEPT !.valid = TRUE, !.rec = i,
                                                  !.outcome = res.outcome,
                                                  !.member = ExtractedMember(rec),
                                                  !.names = SeenNames(rec)]
    /\ counters' = [counters EXCEPT !.restores = @ + 1]
    /\ UNCHANGED <<source, config, tape, volume_label, indexVars, pc, choice,
                   packerLocals, packGen, packer_ret, backupLocals, log,
                   cur_run, prev_run, prev_pack>>
    /\ UNCHANGED sideVars

(***************************************************************************)
(* LTORetriever: restoring many records                                    *)
(***************************************************************************)

\* DatabaseManager.search_files by name: the rows whose file_name matches, the
\* latest backup_date first; an empty query selects every row
search_files(idx, name_query) ==
    LET Match(r) == name_query = "" \/ r.file_name = name_query
        hits == SelectSeq(idx, Match)
    IN [k \in 1..Len(hits) |-> hits[Len(hits) + 1 - k]]

\* the queries the operator types
NameQueries == {"", "x", "y"}

\* the keys of a defaultdict, in the order of their first appearance
RECURSIVE Distinct(_)
Distinct(s) ==
    IF s = <<>> THEN <<>>
    ELSE LET r == Distinct(SubSeq(s, 1, Len(s) - 1))
         IN IF \E i \in 1..Len(r) : r[i] = s[Len(s)] THEN r ELSE Append(r, s[Len(s)])

\* a bulk restore under way: the restore directory, the staging directory, the
\* containers copied from the medium so far, whether a copy has raised, and
\* the lines printed for the records
RestoreState(dir, stg) ==
    [dir |-> dir, staging |-> stg, transfers |-> <<>>, raised |-> FALSE,
     report |-> <<>>]

\* _verify_restored_hash, lines 53-69: what is printed for the restored file
VerifyRestoredHash(file, rec) ==
    IF rec.file_hash = NoneVal THEN "no stored hash"
    ELSE IF Sha256(file) = rec.file_hash THEN "OK"
    ELSE "FAIL"

\* _restore_loose on the medium tp; a raise ends the whole restore
BulkLoose(st, rec, tp) ==
    IF st.raised THEN st
    ELSE IF NormPath(rec.stored_path) \in DOMAIN tp
      THEN [st EXCEPT !.dir = Put(@, <<rec.file_name>>, tp[NormPath(rec.stored_path)]),
                      !.report = Append(@,
                          [rec |-> rec,
                           line |-> VerifyRestoredHash(tp[NormPath(rec.stored_path)],
                                                       rec)])]
      ELSE [st EXCEPT !.raised = TRUE]

\* lines 1009-1018: the line printed for each record, in order
ExtractReport(members, recs) ==
    [k \in 1..Len(recs) |->
        [rec  |-> recs[k],
         line |-> IF Candidates(members, recs[k]) = <<>>
                    THEN "not found"
                    ELSE VerifyRestoredHash(
                             Extracted(Candidates(members, recs[k])[1]), recs[k])]]

\* lines 1003-1016: each record's candidates[0] is extracted, in order
RECURSIVE ExtractAll(_, _, _)
ExtractAll(dir, members, recs) ==
    IF recs = <<>> THEN dir
    ELSE ExtractAll(IF Candidates(members, Head(recs)) = <<>>
                      THEN dir
                      ELSE Put(dir, <<Head(recs).file_name>>,
                               Extracted(Candidates(members, Head(recs))[1])),
                    members, Tail(recs))

\* a bulk extraction that gives up the whole restore at the first record whose
\* member is missing or whose hash differs
BulkPackedAbortOnProblem(st, container, recs, tp) ==
    IF st.raised THEN st
    ELSE IF NormPath(container) \notin DOMAIN tp
      THEN [st EXCEPT !.raised = TRUE]
      ELSE IF \E k \in 1..Len(recs) :
                  ExtractReport(tp[NormPath(container)].members, recs)[k].line
                      \in {"not found", "FAIL"}
        THEN [st EXCEPT !.transfers = Append(@, container), !.raised = TRUE]
        ELSE [st EXCEPT !.transfers = Append(@, container),
                        !.dir = ExtractAll(@, tp[NormPath(container)].members, recs),
                        !.report = @ \o ExtractReport(tp[NormPath(container)].members,
                                                      recs),
                        !.staging = Remove(@, <<Basename(container)>>)]

\* _restore_packed_bulk, lines 991-1025: one copy of the container from the
\* medium tp, the members of all its records extracted, the copy removed
BulkPacked(st, container, recs, tp) ==
    IF st.raised THEN st
    ELSE IF NormPath(container) \notin DOMAIN tp
      THEN [st EXCEPT !.raised = TRUE]
      ELSE [st EXCEPT !.transfers = Append(@, container),
                      !.dir = ExtractAll(@, tp[NormPath(container)].members, recs),
                      !.report = @ \o ExtractReport(tp[NormPath(container)].members,
                                                    recs),
                      !.staging = Remove(@, <<Basename(container)>>)]

RECURSIVE FoldLoose(_, _, _)
FoldLoose(st, recs, tp) ==
    IF recs = <<>> THEN st
    ELSE FoldLoose(BulkLoose(st, Head(recs), tp), Tail(recs), tp)

RECURSIVE FoldContainers(_, _, _, _)
FoldContainers(st, cs, packed, tp) ==
    IF cs = <<>> THEN st
    ELSE LET In(r) == r.container_name = Head(cs)
         IN FoldContainers(BulkPacked(st, Head(cs), SelectSeq(packed, In), tp),
                           Tail(cs), packed, tp)

\* a variant of RestoreTapeGroup that copies the container once per record
RestoreTapeGroupPerRecord(st, recs, tp) ==
    LET IsLoose(r) == ~r.is_packed
        IsPacked(r) == r.is_packed
        packed == SelectSeq(recs, IsPacked)
        cs == [k \in 1..Len(packed) |-> packed[k].container_name]
    IN FoldContainers(FoldLoose(st, SelectSeq(recs, IsLoose), tp), cs, packed, tp)

\* _restore_many, lines 917-931: the records of one tape; the loose ones first,
\* then the packed ones container by container
RestoreTapeGroup(st, recs, tp) ==
    LET IsLoose(r) == ~r.is_packed
        IsPacked(r) == r.is_packed
        packed == SelectSeq(recs, IsPacked)
        cs == Distinct([k \in 1..Len(packed) |-> packed[k].container_name])
    IN FoldContainers(FoldLoose(st, SelectSeq(recs, IsLoose), tp), cs, packed, tp)

\* LTORetriever.run lines 812-884 and _restore_many: the operator searches by
\* name and answers ALL; every record found is on the tape in the drive
RestoreMany ==
    /\ pc = "menu"
    /\ counters.restores < MaxRestores
    /\ \E q \in NameQueries :
         LET recs == search_files(files_index, q)
             st == RestoreTapeGroup(RestoreState(restore_dir, staging), recs, tape)
         IN /\ recs # <<>>
            /\ \A k \in 1..Len(recs) : recs[k].tape_label = volume_label
            /\ restore_dir' = st.dir
            /\ staging' = st.staging
            /\ last_restore' = [NoRestore EXCEPT
                                  !.bulk = TRUE, !.recs = recs,
                                  !.outcome = IF st.raised THEN "raised" ELSE "done",
                                  !.transfers = st.transfers,
                                  !.report = st.report]
    /\ counters' = [counters EXCEPT !.restores = @ + 1]
    /\ UNCHANGED <<source, config, tape, volume_label, indexVars, pc, choice,
                   packerLocals, packGen, packer_ret, backupLocals, log,
                   cur_run, prev_run, prev_pack, sideVars>>

(***************************************************************************)
(* Cartridges, TapeManager and the restore of several tape groups          *)
(***************************************************************************)

TapeLabels == {"T1", "T2"}

\* a cartridge: its volume label and the tree on it
Cartridge(label, tree) == [label |-> label, tree |-> tree]

\* stop_evt is clear and no _monitor thread runs
NoMonitor == [stop_evt |-> FALSE, alive |-> FALSE, samples |-> 0]

\* the operator takes the cartridge out of the drive and puts the other one in
\* (at the main menu, or while _verify_tape waits for Enter)
SwapTape ==
    /\ pc \in {"menu", "rprompt"}
    /\ counters.swaps < MaxSwaps
    /\ tape' = shelf.tree
    /\ volume_label' = shelf.label
    /\ shelf' = Cartridge(volume_label, tape)
    /\ counters' = [counters EXCEPT !.swaps = @ + 1]
    /\ UNCHANGED <<source, config, staging, indexVars, restore_dir, pc, choice,
                   packerLocals, packGen, packer_ret, backupLocals, log,
                   cur_run, prev_run, prev_pack, last_restore, pending, mon,
                   tools, call>>

\* a format that registers the new label before it deletes the old one
IndexAfterFormatRegisterFirst(old_label, label) ==
    IF tape_exists(tapes, old_label)
      THEN [tapes |-> delete_tape(register_tape(tapes, label), old_label),
            files_index |-> delete_tape_files(files_index, old_label)]
      ELSE [tapes |-> register_tape(tapes, label), files_index |-> files_index]

\* format_tape lines 1081-1085: after a successful format the rows of the old
\* label are deleted if it is registered, then the new label is registered
IndexAfterFormat(old_label, label) ==
    IF tape_exists(tapes, old_label)
      THEN [tapes |-> register_tape(delete_tape(tapes, old_label), label),
            files_index |-> delete_tape_files(files_index, old_label)]
      ELSE [tapes |-> register_tape(tapes, label), files_index |-> files_index]

\* format_tape lines 1072-1090: what LtfsCmdFormat.exe can end with
FormatOutcomes ==
    IF "LtfsCmdFormat.exe" \in tools THEN {"Complete", "failed"} ELSE {"not found"}

\* TapeManager.format_tape, lines 1050-1090: the operator confirms and names
\* the new label; LtfsCmdFormat.exe succeeds, fails, or is not installed
FormatTape ==
    /\ pc = "menu"
    /\ counters.formats < MaxFormats
    /\ \E label \in TapeLabels, out \in FormatOutcomes :
         IF out = "Complete"
           THEN /\ tape' = EmptyTree
                /\ volume_label' = label
                /\ tapes' = IndexAfterFormat(volume_label, label).tapes
                /\ files_index' = IndexAfterFormat(volume_label, label).files_index
                /\ log' = {<<"FORMAT", "Complete">>}
           ELSE /\ log' = {<<"ERROR", "LtfsCmdFormat.exe " \o out>>}
                /\ UNCHANGED <<tape, volume_label, indexVars>>
    /\ counters' = [counters EXCEPT !.formats = @ + 1]
    /\ UNCHANGED <<source, config, staging, restore_dir, pc, choice,
                   packerLocals, packGen, packer_ret, backupLocals,
                   cur_run, prev_run, prev_pack, last_restore, sideVars>>

\* TapeManager.register_tape, lines 1092-1098: a label typed by the operator
RegisterTape ==
    /\ pc = "menu"
    /\ \E label \in TapeLabels :
         /\ ~tape_exists(tapes, label)
         /\ tapes' = register_tape(tapes, label)
    /\ UNCHANGED <<source, config, staging, tape, volume_label, files_index,
                   restore_dir, pc, choice, packerLocals, packGen, packer_ret,
                   backupLocals, log, cur_run, prev_run, prev_pack,
                   last_restore, counters, sideVars>>

\* _restore_many lines 908-911: by_tape, the records of each tape label
ByTape(recs) ==
    LET labels == Distinct([k \in 1..Len(recs) |-> recs[k].tape_label])
    IN [g \in 1..Len(labels) |->
          LET On(r) == r.tape_label = labels[g]
          IN [label |-> labels[g], recs |-> SelectSeq(recs, On)]]

\* LTORetriever.run lines 812-884 and _restore_many lines 903-911: the operator
\* searches by name and answers ALL
RetrieverBegin ==
    /\ pc = "menu"
    /\ counters.restores < MaxRestores
    /\ \E q \in NameQueries :
         /\ search_files(files_index, q) # <<>>
         /\ pending' = ByTape(search_files(files_index, q))
         /\ last_restore' = [NoRestore EXCEPT !.bulk = TRUE,
                                              !.recs = search_files(files_index, q),
                                              !.outcome = "running"]
    /\ log' = {}
    /\ pc' = "rverify"
    /\ counters' = [counters EXCEPT !.restores = @ + 1]
    /\ UNCHANGED <<source, config, staging, tape, volume_label, indexVars,
                   restore_dir, choice, packerLocals, packGen, packer_ret,
                   backupLocals, cur_run, prev_run, prev_pack, shelf, mon,
                   tools, call>>

\* _verify_tape, lines 935-942: the label in the drive is compared with the
\* group's; when it differs the operator is asked for the tape
RetrieverVerify ==
    /\ pc = "rverify"
    /\ IF volume_label # Head(pending).label
         THEN /\ log' = log \cup {<<"TAPE", "insert " \o Head(pending).label>>}
              /\ pc' = "rprompt"
         ELSE /\ pc' = "rgroup"
              /\ UNCHANGED log
    /\ UNCHANGED <<source, config, staging, tape, volume_label, indexVars,
                   restore_dir, choice, packerLocals, packGen, packer_ret,
                   backupLocals, cur_run, prev_run, prev_pack, last_restore,
                   counters, sideVars>>

\* _verify_tape, lines 938-939: input() returns when the operator presses
\* Enter; the label is not read again
RetrieverEnter ==
    /\ pc = "rprompt"
    /\ pc' = "rgroup"
    /\ UNCHANGED <<source, config, staging, tape, volume_label, indexVars,
                   restore_dir, choice, packerLocals, packGen, packer_ret,
                   backupLocals, log, cur_run, prev_run, prev_pack,
                   last_restore, counters, sideVars>>

\* _restore_many lines 914-931: the records of the group are restored from the
\* medium in the drive; a raise in _robocopy_file ends the program
RetrieverGroup ==
    /\ pc = "rgroup"
    /\ LET st == RestoreTapeGroup(
                    [RestoreState(restore_dir, staging)
                        EXCEPT !.transfers = last_restore.transfers,
                               !.report = last_restore.report],
                    Head(pending).recs, tape)
       IN /\ restore_dir' = st.dir
          /\ staging' = st.staging
          /\ last_restore' =
                [last_restore EXCEPT
                   !.transfers = st.transfers,
                   !.report = st.report,
                   !.served = Append(@, [label   |-> Head(pending).label,
                                         mounted |-> volume_label,
                                         copied  |-> st.dir # restore_dir]),
                   !.outcome = IF st.raised THEN "raised"
                               ELSE IF Len(pending) = 1 THEN "done" ELSE "running"]
          /\ pending' = IF st.raised THEN <<>> ELSE Tail(pending)
          /\ pc' = IF st.raised \/ Len(pending) = 1 THEN "menu" ELSE "rverify"
    /\ UNCHANGED <<source, config, tape, volume_label, indexVars, choice,
                   packerLocals, packGen, packer_ret, backupLocals, log,
                   cur_run, prev_run, prev_pack, counters, shelf, mon,
                   tools, call>>

(***************************************************************************)
(* LTOBackup.run, Phase 2, with the _monitor thread and the installed      *)
(* programs                                                                *)
(***************************************************************************)

\* lines 684-704: stop_evt is created, the thread is started
MonitorStart ==
    /\ pc = "hashed"
    /\ mon' = [stop_evt |-> FALSE, alive |-> TRUE, samples |-> 0]
    /\ pc' = "copying"
    /\ UNCHANGED <<source, config, staging, tape, volume_label, indexVars,
                   restore_dir, choice, packerLocals, packGen, packer_ret,
                   backupLocals, log, cur_run, prev_run, prev_pack,
                   last_restore, counters, shelf, pending, tools, call>>

\* _monitor, lines 690-701: the thread finds stop_evt clear and runs one more
\* iteration (sleep, _dir_size of the tape, the progress line)
MonitorSample ==
    /\ mon.alive
    /\ ~mon.stop_evt
    /\ mon.samples < MaxSamples
    /\ mon' = [mon EXCEPT !.samples = @ + 1]
    /\ UNCHANGED <<source, config, staging, tape, volume_label, indexVars,
                   restore_dir, pc, choice, packerLocals, packGen, packer_ret,
                   backupLocals, log, cur_run, prev_run, prev_pack,
                   last_restore, counters, shelf, pending, tools, call>>

\* _monitor, line 690: the thread finds stop_evt set and returns
MonitorExit ==
    /\ mon.alive
    /\ mon.stop_evt
    /\ mon' = [mon EXCEPT !.alive = FALSE]
    /\ UNCHANGED <<source, config, staging, tape, volume_label, indexVars,
                   restore_dir, pc, choice, packerLocals, packGen, packer_ret,
                   backupLocals, log, cur_run, prev_run, prev_pack,
                   last_restore, counters, shelf, pending, tools, call>>

\* lines 706-718: subprocess.run returns with robocopy's exit code, whatever
\* it is, and stop_evt is set
RobocopyReturn ==
    /\ pc = "copying"
    /\ "robocopy" \in tools
    /\ Robocopy
    /\ mon' = [mon EXCEPT !.stop_evt = TRUE]
    /\ pc' = "joining"
    /\ UNCHANGED <<source, config, staging, volume_label, indexVars,
                   restore_dir, choice, packerLocals, packGen, packer_ret,
                   bk_source, packer_metadata, tape_label, hash_map, skipped,
                   log, cur_run, prev_run, prev_pack, last_restore, counters,
                   shelf, pending, tools, call>>

\* what subprocess.run can raise: FileNotFoundError when robocopy is not
\* installed, KeyboardInterrupt while it runs
TransferExceptions ==
    IF "robocopy" \in tools THEN {"KeyboardInterrupt"} ELSE {"FileNotFoundError"}

\* lines 706-716 raise: nothing in LTOBackup.run, run_archiver (try/finally,
\* lines 1191-1239) or main catches the exception, lines 718-719 are not
\* run, and the interpreter exits (lines 1344-1348), which ends the daemon
\* thread.  An interrupted robocopy has copied some of the files.
RobocopyRaise ==
    /\ pc = "copying"
    /\ \E exc \in TransferExceptions :
         /\ log' = log \cup {<<"Traceback", exc>>}
         /\ IF exc = "KeyboardInterrupt"
              THEN \E done \in SUBSET {rel \in DOMAIN TreeOf(bk_source) :
                                          NeedsCopy(bk_source, rel)} :
                      tape' = TapeAfterCopy(bk_source, done)
              ELSE UNCHANGED tape
    /\ mon' = [mon EXCEPT !.alive = FALSE]
    /\ pc' = "exited"
    /\ UNCHANGED <<source, config, staging, volume_label, indexVars,
                   restore_dir, choice, packerLocals, packGen, packer_ret,
                   backupLocals, cur_run, prev_run, prev_pack, last_restore,
                   counters, shelf, pending, tools, call>>

\* line 719: mon.join(timeout=2) returns, because the thread has ended or
\* because two seconds have passed
MonitorJoin ==
    /\ pc = "joining"
    /\ pc' = "transferred"
    /\ UNCHANGED <<source, config, staging, tape, volume_label, indexVars,
                   restore_dir, choice, packerLocals, packGen, packer_ret,
                   backupLocals, log, cur_run, prev_run, prev_pack,
                   last_restore, counters, sideVars>>

\* TapeManager.eject_tape, lines 1133-1152, from the tape menu
TapeEject ==
    /\ pc = "menu"
    /\ \E out \in EjectOutcomes : log' = {out}
    /\ UNCHANGED <<source, config, staging, tape, volume_label, indexVars,
                   restore_dir, pc, choice, packerLocals, packGen, packer_ret,
                   backupLocals, cur_run, prev_run, prev_pack, last_restore,
                   counters, sideVars>>

(***************************************************************************)
(* DatabaseManager.search_files: name patterns and date bounds.  A file    *)
(* name and a query are sequences of characters; a date string is the      *)
(* sequence of the code points of its characters, without the characters   *)
(* that are the same in every date string (the year and the month).        *)
(***************************************************************************)

\* datetime.now().isoformat(), line 328: the day, "T", the hour in two digits
IsoFormat(day, hour) == <<48 + day, 84, 48 + (hour \div 10), 48 + (hour % 10)>>

\* a date typed by the operator (YYYY-MM-DD)
DateOnly(day) == <<48 + day>>

\* line 345: date_to + " 23:59:59"
EndOfDay(date_to) == date_to \o <<32, 50, 51>>

\* SQLite's comparison of two TEXT values (BINARY collation): a <= b
RECURSIVE StrLE(_, _)
StrLE(a, b) ==
    IF a = <<>> THEN TRUE
    ELSE IF b = <<>> THEN FALSE
    ELSE IF Head(a) < Head(b) THEN TRUE
    ELSE IF Head(a) > Head(b) THEN FALSE
    ELSE StrLE(Tail(a), Tail(b))

\* LIKE folds the case of ASCII letters
Upper(c) == CASE c = "i" -> "I" [] c = "x" -> "X" [] c = "t" -> "T" [] OTHER -> c

\* SQLite's LIKE: % matches any run of characters, _ any one character
RECURSIVE Like(_, _)
Like(p, t) ==
    IF p = <<>> THEN t = <<>>
    ELSE IF Head(p) = "%"
      THEN Like(Tail(p), t) \/ (t # <<>> /\ Like(p, Tail(t)))
      ELSE /\ t # <<>>
           /\ (Head(p) = "_" \/ Upper(Head(p)) = Upper(Head(t)))
           /\ Like(Tail(p), Tail(t))

\* str.replace of one character
Replace(str, old, new) == [i \in 1..Len(str) |-> IF str[i] = old THEN new ELSE str[i]]

\* lines 336-338: the LIKE pattern of a name query
LikePattern(name_query) ==
    LET pattern == Replace(Replace(name_query, "*", "%"), "?", "_")
    IN IF /\ \A i \in 1..Len(pattern) : pattern[i] # "%"
          /\ \A i \in 1..Len(pattern) : pattern[i] # "_"
         THEN <<"%">> \o pattern \o <<"%">>
         ELSE pattern

\* DatabaseManager.search_files, lines 331-347; an empty argument is falsy.
\* The rows are in the order of their backup_date, so DESC is the reverse.
search_files_where(idx, name_query, date_from, date_to) ==
    LET Hit(r) ==
            /\ name_query # <<>> => Like(LikePattern(name_query), r.file_name)
            /\ date_from # <<>> => StrLE(date_from, r.backup_date)
            /\ date_to # <<>> => StrLE(r.backup_date, EndOfDay(date_to))
        hits == SelectSeq(idx, Hit)
    IN [k \in 1..Len(hits) |-> hits[Len(hits) + 1 - k]]

\* LTORetriever.run, lines 818-830: the operator's name and dates are passed
\* to search_files
SearchFiles ==
    /\ pc = "menu"
    /\ call.fn = "search_files"
    /\ ~call.done
    /\ call' = [call EXCEPT !.done = TRUE,
                            !.ret = search_files_where(files_index, call.name_query,
                                                       call.date_from, call.date_to)]
    /\ UNCHANGED <<source, config, staging, tape, volume_label, indexVars,
                   restore_dir, pc, choice, packerLocals, packGen, packer_ret,
                   backupLocals, log, cur_run, prev_run, prev_pack,
                   last_restore, counters, shelf, pending, mon, tools>>

(***************************************************************************)
(* LTOAnalyzer.analyze.  The folder is the sequence of its files in the     *)
(* order of os.walk, each with its size in bytes and whether os.path.getsize *)
(* raises OSError on it.                                                   *)
(***************************************************************************)

\* line 414: 1024 * 1024 bytes
Mega == 1048576

\* lines 401-410: bins and the counters before the walk
AnalyzerStart ==
    [bins |-> [Tiny |-> 0, Small |-> 0, Medium |-> 0, Large |-> 0, Huge |-> 0],
     total_files |-> 0, files_under_threshold |-> 0]

\* lines 418-422: the bucket of a size
BumpBin(bins, size) ==
    IF size < Mega THEN [bins EXCEPT !.Tiny = @ + 1]
    ELSE IF size < 10 * Mega THEN [bins EXCEPT !.Small = @ + 1]
    ELSE IF size < 100 * Mega THEN [bins EXCEPT !.Medium = @ + 1]
    ELSE IF size < 1024 * Mega THEN [bins EXCEPT !.Large = @ + 1]
    ELSE [bins EXCEPT !.Huge = @ + 1]

\* a loop body that counts the file before it asks for its size
AnalyzeFileCountFirst(acc, f, threshold_mb) ==
    IF f.bad
      THEN [acc EXCEPT !.total_files = @ + 1]
      ELSE [acc EXCEPT !.total_files = @ + 1,
                       !.bins = BumpBin(@, f.size),
                       !.files_under_threshold =
                           IF f.size < threshold_mb * Mega THEN @ + 1 ELSE @]

\* lines 412-427: one file of the walk; OSError skips it
AnalyzeFile(acc, f, threshold_mb) ==
    IF f.bad
      THEN acc
      ELSE [acc EXCEPT !.total_files = @ + 1,
                       !.bins = BumpBin(@, f.size),
                       !.files_under_threshold =
                           IF f.size < threshold_mb * Mega THEN @ + 1 ELSE @]

\* lines 410-427: the walk
RECURSIVE AnalyzeWalk(_, _, _)
AnalyzeWalk(acc, files, threshold_mb) ==
    IF files = <<>> THEN acc
    ELSE AnalyzeWalk(AnalyzeFile(acc, Head(files), threshold_mb), Tail(files),
                     threshold_mb)

\* a recommendation that packs from 30% on
RecommendFrom30(under, total) ==
    IF total # 0 THEN 10 * under >= 3 * total ELSE FALSE

\* lines 438-446: ratio > 0.3, with ratio 0 for no files
Recommend(under, total) ==
    IF total # 0 THEN 10 * under > 3 * total ELSE FALSE

\* LTOAnalyzer.analyze, lines 398-446: the report and the returned value
analyze(files, threshold_mb) ==
    LET acc == AnalyzeWalk(AnalyzerStart, files, threshold_mb)
    IN [bins |-> acc.bins, total_files |-> acc.total_files,
        files_under_threshold |-> acc.files_under_threshold,
        recommend |-> Recommend(acc.files_under_threshold, acc.total_files)]

\* run_archiver, line 1192: the source folder is analyzed
Analyze ==
    /\ pc = "menu"
    /\ call.fn = "analyze"
    /\ ~call.done
    /\ call' = [call EXCEPT !.done = TRUE,
                            !.ret = analyze(call.files, call.threshold_mb)]
    /\ UNCHANGED <<source, config, staging, tape, volume_label, indexVars,
                   restore_dir, pc, choice, packerLocals, packGen, packer_ret,
                   backupLocals, log, cur_run, prev_run, prev_pack,
                   last_restore, counters, shelf, pending, mon, tools>>

(***************************************************************************)
(* Specifications                                                          *)
(***************************************************************************)

NoCounters == [packs |-> 1, runs |-> 0, edits |-> 0, restores |-> 0, ejects |-> 0,
               formats |-> 0, swaps |-> 0]

\* everything but the Index
InitLocals ==
    /\ staging = EmptyTree
    /\ tape = EmptyTree
    /\ volume_label = "T1"
    /\ restore_dir = EmptyTree
    /\ choice = ""
    /\ metadata = <<>>
    /\ zip_idx = 1
    /\ current_zip_size = 0
    /\ files_in_current_zip = 0
    /\ walkPos = 1
    /\ packGen = 0
    /\ packer_ret = RetList(<<>>)
    /\ bk_source = SourceDir
    /\ packer_metadata = RetNone
    /\ tape_label = ""
    /\ hash_map = <<>>
    /\ skipped = {}
    /\ rc = NoRc
    /\ log = {}
    /\ cur_run = [n0 |-> 0, used0 |-> 0, packed |-> FALSE]
    /\ prev_run = NoRun
    /\ prev_pack = [valid |-> FALSE, metadata |-> <<>>,
                    containers |-> Containers(EmptyTree)]
    /\ last_restore = NoRestore
    /\ counters = NoCounters
    /\ shelf = Cartridge("T2", EmptyTree)
    /\ pending = <<>>
    /\ mon = NoMonitor

InitCommon ==
    /\ tapes = NoTapes
    /\ files_index = <<>>
    /\ InitLocals

\* the packer alone, on every source tree, threshold and container limit
InitPack ==
    /\ source \in SourceTrees
    /\ walkOrder \in WalkOrders
    /\ zip_threshold_mb \in 1..MaxThreshold
    /\ max_zip_size_mb \in 1..MaxZip
    /\ pc = "pack"
    /\ tools = ToolNames
    /\ call = NoCall
    /\ InitCommon

NextPack ==
    \/ PackerStartClean
    \/ PackerStartPrompt
    \/ PackerPackSmall
    \/ PackerStageLoose
    \/ PackerFileError
    \/ PackerFinish
    \/ PackerInvokeAgain

SpecPack == InitPack /\ [][NextPack]_vars

\* the source trees of SpecTapes: readable files in the source root, y among them
TapeTrees ==
    {t \in MainTrees : /\ P_y \in DOMAIN t
                       /\ P_subx \notin DOMAIN t
                       /\ \A p \in DOMAIN t : ~t[p].bad}

\* two cartridges, direct backups, tape maintenance and bulk restores
InitTapes ==
    /\ source \in TapeTrees
    /\ walkOrder = PathSeq
    /\ zip_threshold_mb = MainThreshold
    /\ max_zip_size_mb = MainZipLimit
    /\ pc = "menu"
    /\ tools = ToolNames
    /\ call = NoCall
    /\ InitCommon

NextTapes ==
    \/ ArchiverDirect
    \/ BackupScan
    \/ BackupTransfer
    \/ BackupReconcile
    \/ BackupAccount
    \/ BackupEject
    \/ SwapTape
    \/ FormatTape
    \/ RegisterTape
    \/ RetrieverBegin
    \/ RetrieverVerify
    \/ RetrieverEnter
    \/ RetrieverGroup

SpecTapes == InitTapes /\ [][NextTapes]_vars

\* direct backups with the monitor thread, and the tape menu, on a machine
\* where any of the external programs may be missing
InitMon ==
    /\ source \in TapeTrees
    /\ walkOrder = PathSeq
    /\ zip_threshold_mb = MainThreshold
    /\ max_zip_size_mb = MainZipLimit
    /\ pc = "menu"
    /\ tools \in SUBSET ToolNames
    /\ call = NoCall
    /\ InitCommon

NextMon ==
    \/ ArchiverDirect
    \/ BackupScan
    \/ MonitorStart
    \/ MonitorSample
    \/ MonitorExit
    \/ RobocopyReturn
    \/ RobocopyRaise
    \/ MonitorJoin
    \/ BackupReconcile
    \/ BackupAccount
    \/ BackupEject
    \/ FormatTape
    \/ TapeEject

SpecMon == InitMon /\ [][NextMon]_vars

\* the file names of SpecSearch: I_1, TI_1, IX1, i_1
SearchNames ==
    {<<"I", "_", "1">>, <<"T", "I", "_", "1">>, <<"I", "X", "1">>,
     <<"i", "_", "1">>}

\* the name queries of SpecSearch: none, I_, I_*, X, ?X*, I
SearchQueries ==
    {<<>>, <<"I", "_">>, <<"I", "_", "*">>, <<"X">>, <<"?", "X", "*">>, <<"I">>}

\* a row of a direct backup inserted at the given day and hour
SearchRow(name, at) ==
    [file_name       |-> name,
     original_path   |-> SourceDir \o <<Sep>> \o name,
     file_size_bytes |-> 1,
     file_hash       |-> <<"sha256", <<"data", 1>>, <<>>>>,
     backup_date     |-> IsoFormat(at.day, at.hour),
     tape_label      |-> "T1",
     is_packed       |-> FALSE,
     container_name  |-> NoneVal,
     stored_path     |-> TapeDrive \o <<Sep>> \o name]

\* the Indexes of SpecSearch: up to MaxRows rows, inserted in the order of
\* time, each at the first or the last hour of a day
SearchIndexes ==
    LET stamps == {[day |-> d, hour |-> h] : d \in 1..MaxDay, h \in {0, 23}}
        Before(a, b) == a.day < b.day \/ (a.day = b.day /\ a.hour <= b.hour)
        rows == UNION {[1..n -> SearchNames \X stamps] : n \in 0..MaxRows}
    IN {[k \in DOMAIN r |-> SearchRow(r[k][1], r[k][2])] :
          r \in {q \in rows : \A k \in 1..(Len(q) - 1) :
                                  Before(q[k][2], q[k + 1][2])}}

\* search_files applied to an Index of rows of tape T1
InitSearch ==
    /\ source = EmptyTree
    /\ walkOrder = PathSeq
    /\ zip_threshold_mb = MainThreshold
    /\ max_zip_size_mb = MainZipLimit
    /\ pc = "menu"
    /\ tools = ToolNames
    /\ tapes = register_tape(NoTapes, "T1")
    /\ files_index \in SearchIndexes
    /\ \E q \in SearchQueries,
          from \in {<<>>} \cup {DateOnly(d) : d \in 1..MaxDay},
          to \in {<<>>} \cup {DateOnly(d) : d \in 1..MaxDay} :
         call = [fn |-> "search_files", name_query |-> q, date_from |-> from,
                 date_to |-> to, done |-> FALSE, ret |-> <<>>]
    /\ InitLocals

NextSearch == SearchFiles

SpecSearch == InitSearch /\ [][NextSearch]_vars

\* the sizes of SpecAnalyze: the edges of the five buckets
AnalyzerSizes ==
    {0, Mega - 1, Mega, 10 * Mega - 1, 10 * Mega, 100 * Mega - 1, 100 * Mega,
     1024 * Mega - 1, 1024 * Mega}

\* zip_threshold_mb in SpecAnalyze
AnalyzerThresholds == {1, 10, 100}

\* the folders of SpecAnalyze: files of one size, unreadable files, files of
\* another size
AnalyzerFolders ==
    LET Copies(n, f) == [j \in 1..n |-> f]
    IN
    {Copies(k, [size |-> a, bad |-> FALSE])
        \o Copies(u, [size |-> a, bad |-> TRUE])
        \o Copies(m, [size |-> b, bad |-> FALSE]) :
     a \in AnalyzerSizes, b \in AnalyzerSizes,
     k \in 0..MaxFirst, m \in 0..MaxSecond, u \in 0..1}

\* analyze applied to a folder
InitAnalyze ==
    /\ source = EmptyTree
    /\ walkOrder = PathSeq
    /\ zip_threshold_mb = MainThreshold
    /\ max_zip_size_mb = MainZipLimit
    /\ pc = "menu"
    /\ tools = ToolNames
    /\ \E files \in AnalyzerFolders, t \in AnalyzerThresholds :
         call = [fn |-> "analyze", files |-> files, threshold_mb |-> t,
                 done |-> FALSE, ret |-> analyze(<<>>, t)]
    /\ InitCommon

NextAnalyze == Analyze

SpecAnalyze == InitAnalyze /\ [][NextAnalyze]_vars

\* the source trees of SpecBulk: readable files below the threshold, x and y
\* among them
BulkTrees ==
    {[p \in D |-> MkFile(p, MainThreshold - 1, FALSE)] :
        D \in {S \in SUBSET UserPaths : P_x \in S /\ P_y \in S}}

\* packed backups of a changing source, and bulk restores
InitBulk ==
    /\ source \in BulkTrees
    /\ walkOrder = PathSeq
    /\ zip_threshold_mb = MainThreshold
    /\ max_zip_size_mb = MainZipLimit
    /\ pc = "menu"
    /\ tools = ToolNames
    /\ call = NoCall
    /\ InitCommon

NextBulk ==
    \/ ArchiverAutoPilot
    \/ PackerStartClean
    \/ PackerStartPrompt
    \/ PackerPackSmall
    \/ PackerStageLoose
    \/ PackerFinish
    \/ ArchiverPacked
    \/ ArchiverAborted
    \/ BackupScan
    \/ BackupTransfer
    \/ BackupReconcile
    \/ BackupAccount
    \/ BackupEject
    \/ ModifySource
    \/ RestoreMany

SpecBulk == InitBulk /\ [][NextBulk]_vars

\* the whole program, from a fresh Index and an empty tape labelled T1
Init ==
    /\ source \in MainTrees
    /\ walkOrder = PathSeq
    /\ zip_threshold_mb = MainThreshold
    /\ max_zip_size_mb = MainZipLimit
    /\ pc = "menu"
    /\ tools = ToolNames
    /\ call = NoCall
    /\ InitCommon

Next ==
    \/ ArchiverDirect
    \/ ArchiverAutoPilot
    \/ PackerStartClean
    \/ PackerStartPrompt
    \/ PackerPackSmall
    \/ PackerStageLoose
    \/ PackerFileError
    \/ PackerFinish
    \/ ArchiverPacked
    \/ ArchiverAborted
    \/ BackupScan
    \/ BackupTransfer
    \/ BackupInterrupt
    \/ BackupReconcile
    \/ BackupAccount
    \/ BackupEject
    \/ ModifySource
    \/ RestoreOne
    \/ RestoreMany

Spec == Init /\ [][Next]_vars

(***************************************************************************)
(* Properties of the archive runs                                          *)
(***************************************************************************)

\* the rows the current run has inserted
NewRowIdx == (cur_run.n0 + 1)..Len(files_index)

\* where a row says its bytes are on the medium
RowLocation(r) == NormPath(IF r.is_packed THEN r.container_name ELSE r.stored_path)

\* the rows among idx that point at the destination of the walked file rel
RowsAt(idx, rel) ==
    {i \in idx : /\ files_index[i].tape_label = tape_label
                 /\ RowLocation(files_index[i]) = NormPath(DstOf(bk_source, rel))
                 /\ files_index[i].is_packed = (rel \in BundleRels)}

\* the run at hand repeats the run before it: same mode, same tape, the source
\* tree unchanged, and the run before it copied everything
RepeatsCompleteRun ==
    /\ prev_run.valid
    /\ prev_run.complete
    /\ prev_run.source = bk_source
    /\ prev_run.label = tape_label
    /\ prev_run.tree = source
    /\ bk_source = StagingDir =>
         (prev_run.has_metadata /\ ~packer_metadata.none /\ packer_metadata.list # <<>>)

\* C1: a run that repeats a complete run on an unchanged source, direct or
\* staged with packer metadata, inserts no row and leaves used_space as it was
C1_IdempotentReBackup ==
    (pc = "accounted" /\ RepeatsCompleteRun) =>
        /\ Len(files_index) = cur_run.n0
        /\ tapes[tape_label].used_space = cur_run.used0

\* the staged re-run of a complete staged run: all containers are skipped, and
\* rows were inserted all the same
C1_Witness ==
    /\ pc = "accounted"
    /\ RepeatsCompleteRun
    /\ bk_source = StagingDir
    /\ hash_map = <<>>
    /\ Len(files_index) > cur_run.n0

\* C2: every row a run inserted points at a file or container that is on the
\* medium, and no row points at a file the transfer failed to copy
C2_IndexMatchesCopied ==
    pc = "reconciled" =>
        \A i \in NewRowIdx :
            /\ RowLocation(files_index[i]) \in DOMAIN tape
            /\ \A rel \in rc.failed :
                   RowLocation(files_index[i]) # RoboDst(bk_source, rel)

\* a direct run whose transfer failed on a hashed file, after reconciliation
C2_Witness ==
    /\ pc = "reconciled"
    /\ packer_metadata.none
    /\ rc.returncode >= 8
    /\ \E k \in 1..Len(hash_map) : hash_map[k].rel_path \in rc.failed

\* C3: every file Phase 1 skips has a row for this tape in the Index already
C3_SkippedAlreadyCatalogued ==
    pc = "hashed" =>
        \A rel \in skipped : RowsAt(1..Len(files_index), rel) # {}

\* the run after an interrupted one skips a file that was copied then
C3_Witness ==
    /\ pc = "hashed"
    /\ ~prev_run.valid
    /\ counters.runs = 1
    /\ skipped # {}

\* C4: after reconciliation every hashed file has exactly one new row and no
\* skipped file has one; a container's rows are those of its members
C4_OneRowPerHashedFile ==
    pc = "reconciled" =>
        /\ \A k \in 1..Len(hash_map) :
              IF hash_map[k].rel_path \in BundleRels
                THEN RowsAt(NewRowIdx, hash_map[k].rel_path) # {}
                ELSE Cardinality(RowsAt(NewRowIdx, hash_map[k].rel_path)) = 1
        /\ \A rel \in skipped : RowsAt(NewRowIdx, rel) = {}

\* a staged run on reused staging that hashed a loose file
C4_Witness ==
    /\ pc = "reconciled"
    /\ bk_source = StagingDir
    /\ packer_metadata = RetList(<<>>)
    /\ \E k \in 1..Len(hash_map) : hash_map[k].rel_path \notin BundleRels

\* a log line names the file
LogNames(name) == \E e \in log : e[2] = name

\* C5: a file the backup walked, or the packer processed in this session, that
\* has no new row when the run is reconciled is named in a log line
C5_NoSilentLoss ==
    pc = "reconciled" =>
        /\ \A rel \in (DOMAIN TreeOf(bk_source)) \ BundleRels :
              RowsAt(NewRowIdx, rel) = {} => LogNames(Basename(rel))
        /\ (bk_source = StagingDir /\ cur_run.packed) =>
              \A p \in DOMAIN source :
                  (\A i \in NewRowIdx :
                       files_index[i].original_path # Join(SourceDir, p))
                     => LogNames(Basename(p))

\* a reconciled run with a walked file that has neither a row nor a log line
C5_Witness ==
    /\ pc = "reconciled"
    /\ \E rel \in (DOMAIN TreeOf(bk_source)) \ BundleRels :
          RowsAt(NewRowIdx, rel) = {} /\ ~LogNames(Basename(rel))

\* C9, one step: on a non-empty staging directory the answer 2 returns the
\* empty list and any answer but 1 and 2 returns None, staging as it was; after
\* None the archiver returns with the medium, the Index and the eject count as
\* they were and no transfer made; a staged run on the empty list inserts no row
C9_Step ==
    /\ (pc = "pack" /\ DOMAIN staging # {} /\ choice' = "2") =>
          (staging' = staging /\ packer_ret' = RetList(<<>>) /\ pc' = "packed")
    /\ (pc = "pack" /\ DOMAIN staging # {} /\ choice' = "other") =>
          (staging' = staging /\ packer_ret' = RetNone /\ pc' = "packed")
    /\ (pc = "packed" /\ packer_ret.none) =>
          /\ pc' = "menu"
          /\ UNCHANGED <<staging, tape, indexVars, rc>>
          /\ counters'.ejects = counters.ejects
    /\ (/\ pc \in {"scan", "hashed", "transferred", "reconciled", "accounted"}
        /\ bk_source = StagingDir
        /\ packer_metadata = RetList(<<>>)) =>
          files_index' = files_index

C9_ReuseAndDecline == [][C9_Step]_vars

\* a staged run on reused staging has hashed files and has been reconciled
C9_Witness ==
    /\ pc = "accounted"
    /\ choice = "2"
    /\ bk_source = StagingDir
    /\ packer_metadata = RetList(<<>>)
    /\ hash_map # <<>>
    /\ DOMAIN staging # {}
    /\ Len(files_index) = cur_run.n0

\* C10: after a restore of a row with a file_hash, the restore directory holds
\* the file under the row's file_name and its SHA-256 is the row's file_hash
C10_RestoreRoundTrip ==
    (last_restore.valid /\ files_index[last_restore.rec].file_hash # NoneVal) =>
        LET r == files_index[last_restore.rec]
        IN /\ <<r.file_name>> \in DOMAIN restore_dir
           /\ Sha256(restore_dir[<<r.file_name>>]) = r.file_hash

\* a packed row was restored; its container on the medium holds the member the
\* row names, with the row's hash, and the file delivered has another hash
C10_Witness ==
    /\ last_restore.valid
    /\ last_restore.outcome = "saved"
    /\ LET r == files_index[last_restore.rec]
           zip == tape[NormPath(r.container_name)]
       IN /\ r.is_packed
          /\ \E k \in 1..Len(zip.members) :
                /\ zip.members[k].name = ZipArcName(r.stored_path)
                /\ Sha256(Extracted(zip.members[k])) = r.file_hash
          /\ Sha256(restore_dir[<<r.file_name>>]) # r.file_hash

\* how often the container c was copied from the medium in the last bulk restore
TransfersOf(c) ==
    Cardinality({k \in 1..Len(last_restore.transfers) : last_restore.transfers[k] = c})

\* the packed records of the last bulk restore that name the container c
SharingContainer(c) ==
    {k \in 1..Len(last_restore.recs) :
        last_restore.recs[k].is_packed /\ last_restore.recs[k].container_name = c}

\* C11: in a bulk restore the K >= 1 packed records that share one container
\* cause one copy of that container from the medium when the restore ran to
\* its end, and never more than one
C11_OneTransferPerContainer ==
    last_restore.bulk =>
        \A k \in 1..Len(last_restore.recs) :
            last_restore.recs[k].is_packed =>
                /\ TransfersOf(last_restore.recs[k].container_name) <= 1
                /\ last_restore.outcome = "done" =>
                      TransfersOf(last_restore.recs[k].container_name) = 1

\* a bulk restore of two packed records of one container has run to its end
C11_Witness ==
    /\ last_restore.bulk
    /\ last_restore.outcome = "done"
    /\ \E k \in 1..Len(last_restore.recs) :
          /\ last_restore.recs[k].is_packed
          /\ Cardinality(SharingContainer(last_restore.recs[k].container_name)) >= 2
          /\ TransfersOf(last_restore.recs[k].container_name) = 1

\* C12: when a single restore extracted a member for a packed row, it is the
\* member named exactly by the row's stored_path if the container has one, and
\* a member with the row's file name only if it has none
C12_StoredPathFirst ==
    (last_restore.valid /\ last_restore.member # NoneVal) =>
        LET r == files_index[last_restore.rec]
        IN IF \E k \in 1..Len(last_restore.names) :
                  last_restore.names[k] = r.stored_path
             THEN last_restore.member = r.stored_path
             ELSE Basename(last_restore.member) = r.file_name

\* a packed row was restored from a container that holds the member its
\* stored_path names and another member of the same file name
C12_Witness ==
    /\ last_restore.valid
    /\ last_restore.member = files_index[last_restore.rec].stored_path
    /\ \E k \in 1..Len(last_restore.names) :
          /\ last_restore.names[k] # last_restore.member
          /\ Basename(last_restore.names[k]) = files_index[last_restore.rec].file_name

\* the file at rel was catalogued before and its content has changed since
ChangedSinceCatalogued(rel) ==
    /\ \E i \in 1..Len(files_index) :
          files_index[i].original_path = Join(bk_source, rel)
    /\ \A i \in 1..Len(files_index) :
          files_index[i].original_path = Join(bk_source, rel) =>
              files_index[i].file_hash # Sha256(TreeOf(bk_source)[rel])

\* C18: the Index is append-only: every step keeps every committed
\* FileRecord, field by field, at its place, and the reconciliation of a
\* direct run that copied a changed, already catalogued path appends a new
\* FileRecord of that path.
C18_Step ==
    /\ Len(files_index') >= Len(files_index)
    /\ \A i \in 1..Len(files_index) : files_index'[i] = files_index[i]
    /\ (pc = "transferred" /\ pc' = "reconciled" /\ packer_metadata.none) =>
          \A rel \in rc.copied :
              ChangedSinceCatalogued(rel) =>
                  \E j \in (Len(files_index) + 1)..Len(files_index') :
                      files_index'[j].original_path = Join(bk_source, rel)

C18_AppendOnlyHistory == [][C18_Step]_vars

\* a direct run added a record of a path whose earlier record, with another
\* hash, is still there
C18_Witness ==
    /\ pc = "reconciled"
    /\ packer_metadata.none
    /\ \E i \in 1..cur_run.n0, j \in (cur_run.n0 + 1)..Len(files_index) :
          /\ files_index[i].original_path = files_index[j].original_path
          /\ files_index[i].file_hash # files_index[j].file_hash

\* C19: every FileRecord of the Index is packed if and only if it names a
\* container.
C19_PackedIffContainer ==
    \A i \in 1..Len(files_index) :
        files_index[i].is_packed <=> files_index[i].container_name # NoneVal

\* the Index holds a packed row, a staged loose row and a direct row
C19_Witness ==
    /\ \E i \in 1..Len(files_index) : files_index[i].is_packed
    /\ \E i \in 1..Len(files_index) :
          /\ ~files_index[i].is_packed
          /\ files_index[i].stored_path[3] = Basename(StagingDir)
    /\ \E i \in 1..Len(files_index) :
          /\ ~files_index[i].is_packed
          /\ files_index[i].stored_path[3] = Basename(SourceDir)

\* C30: a bulk restore into an empty restore directory of records with
\* pairwise distinct original paths, each of them extracted or copied, leaves
\* one restored file per record: no record's file replaces another's.
C30_Step ==
    (/\ counters'.restores = counters.restores + 1
     /\ last_restore'.bulk
     /\ last_restore'.outcome = "done"
     /\ restore_dir = EmptyTree
     /\ \A k, j \in 1..Len(last_restore'.recs) :
            k # j => last_restore'.recs[k].original_path
                        # last_restore'.recs[j].original_path
     /\ Len(last_restore'.report) = Len(last_restore'.recs)
     /\ \A k \in 1..Len(last_restore'.report) :
            last_restore'.report[k].line # "not found")
    => Cardinality(DOMAIN restore_dir') = Len(last_restore'.recs)

C30_OneFilePerRecord == [][C30_Step]_vars

\* a bulk restore of two records with different file names has delivered both
C30_Witness ==
    /\ last_restore.bulk
    /\ last_restore.outcome = "done"
    /\ Len(last_restore.recs) = 2
    /\ last_restore.recs[1].file_name # last_restore.recs[2].file_name
    /\ last_restore.recs[1].original_path # last_restore.recs[2].original_path
    /\ Len(last_restore.report) = 2
    /\ \A k \in 1..2 : last_restore.report[k].line = "OK"
    /\ Cardinality(DOMAIN restore_dir) = 2

(***************************************************************************)
(* Properties of the tapes, under SpecTapes                                *)
(***************************************************************************)

\* C13: in a restore, the records of a tape group are transferred only while
\* the tape the group needs is the one mounted: every group that was served
\* and copied something was served from the cartridge bearing its label.
C13_TransferredFromRequiredTape ==
    \A k \in 1..Len(last_restore.served) :
        last_restore.served[k].copied =>
            last_restore.served[k].mounted = last_restore.served[k].label

\* the retriever found another tape mounted and waits for the operator
C13_Witness ==
    /\ pc = "rprompt"
    /\ volume_label # Head(pending).label
    /\ <<"TAPE", "insert " \o Head(pending).label>> \in log

\* C15: every FileRecord of the Index names a tape that has a Tape row, after
\* every registration, format, backup step and deletion.
C15_ReferentialIntegrity ==
    \A i \in 1..Len(files_index) : tape_exists(tapes, files_index[i].tape_label)

\* a backup catalogued files of one tape, another tape was formatted away
C15_Witness ==
    /\ files_index # <<>>
    /\ counters.formats >= 1
    /\ <<"FORMAT", "Complete">> \in log
    /\ \E l \in TapeLabels : ~tape_exists(tapes, l)

\* a step that formats the mounted, registered and catalogued tape under the
\* label it already bears
ReformatSameLabel ==
    /\ counters'.formats = counters.formats + 1
    /\ <<"FORMAT", "Complete">> \in log'
    /\ volume_label' = volume_label
    /\ tape_exists(tapes, volume_label)
    /\ \E i \in 1..Len(files_index) : files_index[i].tape_label = volume_label

\* C16: reformatting the registered, backed-up tape under its own label leaves
\* a freshly inserted Tape row for the label (the re-registration succeeded)
\* and no FileRecord of the label.
C16_Step ==
    ReformatSameLabel =>
        /\ tape_exists(tapes', volume_label)
        /\ tapes'[volume_label] = register_tape(NoTapes, volume_label)[volume_label]
        /\ \A i \in 1..Len(files_index') :
               files_index'[i].tape_label # volume_label

C16_ReformatSameLabel == [][C16_Step]_vars

\* the tape of the last backup, which catalogued files, has been reformatted
\* under its label: registered, empty and without records
C16_Witness ==
    /\ pc = "menu"
    /\ counters.formats = 1
    /\ <<"FORMAT", "Complete">> \in log
    /\ hash_map # <<>>
    /\ rc # NoRc
    /\ rc.copied # {}
    /\ tape_label = volume_label
    /\ tape_exists(tapes, volume_label)
    /\ tapes[volume_label].used_space = 0
    /\ tape = EmptyTree
    /\ \A i \in 1..Len(files_index) : files_index[i].tape_label # volume_label

\* C29: a successful format to a label leaves, whatever the Index held and
\* whatever label was mounted, a Tape row for the label with used space 0 and
\* no FileRecord of the label from before the format; a format that fails
\* leaves the Index unchanged.
C29_Step ==
    counters'.formats = counters.formats + 1
    => IF <<"FORMAT", "Complete">> \in log'
         THEN /\ tape_exists(tapes', volume_label')
              /\ tapes'[volume_label'].used_space = 0
              /\ \A i \in 1..Len(files_index') :
                     files_index'[i].tape_label # volume_label'
         ELSE UNCHANGED indexVars

C29_FormatLeavesFreshLabel == [][C29_Step]_vars

\* a format has failed on a catalogued tape: the rows and the files are kept
C29_Witness ==
    /\ pc = "menu"
    /\ counters.formats = 1
    /\ <<"ERROR", "LtfsCmdFormat.exe failed">> \in log
    /\ files_index # <<>>
    /\ tape # EmptyTree
    /\ tape_exists(tapes, volume_label)
    /\ tapes[volume_label].used_space > 0

\* C17: while a Tape row exists its used space never decreases; a step changes
\* it only by adding the bytes the backup run reports, or by a format that
\* deletes the row and inserts it again with zero.
C17_Step ==
    \A l \in DOMAIN tapes :
        tape_exists(tapes', l) =>
            \/ tapes'[l].used_space = tapes[l].used_space
            \/ /\ pc = "reconciled"
               /\ l = tape_label
               /\ rc.bytes_copied > 0
               /\ tapes'[l].used_space = tapes[l].used_space + rc.bytes_copied
            \/ /\ counters'.formats = counters.formats + 1
               /\ <<"FORMAT", "Complete">> \in log'
               /\ l = volume_label
               /\ tapes'[l].used_space = 0

C17_UsedSpaceMonotonic == [][C17_Step]_vars

\* a second run added bytes to a tape that already had used space
C17_Witness ==
    /\ pc = "accounted"
    /\ rc.bytes_copied > 0
    /\ tapes[tape_label].used_space > rc.bytes_copied

(***************************************************************************)
(* Properties of the transfer and of the tools, under SpecMon              *)
(***************************************************************************)

\* C14: on every exit path of the transfer call the monitor thread has been
\* signaled and has terminated before reconciliation begins: from the return
\* of the join onwards stop_evt is set and the thread is not alive, and a
\* transfer call that raised has left stop_evt set.
C14_MonitorStoppedOnEveryPath ==
    /\ pc \in {"transferred", "reconciled", "accounted"} =>
          (mon.stop_evt /\ ~mon.alive)
    /\ (pc = "exited" /\ \E exc \in {"KeyboardInterrupt", "FileNotFoundError"} :
                            <<"Traceback", exc>> \in log) => mon.stop_evt

\* robocopy returned a failing exit code and the thread was stopped and had
\* ended when reconciliation began
C14_Witness ==
    /\ pc = "transferred"
    /\ rc.returncode >= 8
    /\ mon.stop_evt
    /\ ~mon.alive
    /\ mon.samples > 0

\* the phases of LTOBackup.run, in the order of the code
PhaseOrder ==
    /\ pc = "scan" => pc' \in {"scan", "hashed"}
    /\ pc = "hashed" => pc' \in {"hashed", "copying"}
    /\ pc = "copying" => pc' \in {"copying", "joining", "exited"}
    /\ pc = "joining" => pc' \in {"joining", "transferred"}
    /\ pc = "transferred" => pc' \in {"transferred", "reconciled"}
    /\ pc = "reconciled" => pc' \in {"reconciled", "accounted"}
    /\ pc = "accounted" => pc' \in {"accounted", "menu"}

\* C26: a backup run whose transfer call returns goes through its phases in
\* the order of the code (a call that raises ends the process): the
\* hash map is complete when the transfer starts, the medium is written by
\* the transfer only, rows are inserted only after the transfer has returned,
\* the used space is updated only after the inserts, and the run ends with
\* one eject, whatever the exit code of the transfer and whatever the eject
\* ends with; the eject step leaves the Index as it is.
C26_Step ==
    /\ PhaseOrder
    /\ hash_map' # hash_map => pc \in {"menu", "scan"}
    /\ (pc # "menu" /\ tape' # tape) => pc = "copying"
    /\ (pc # "menu" /\ files_index' # files_index) =>
          (pc = "transferred" /\ pc' = "reconciled")
    /\ (pc # "menu" /\ tapes' # tapes) =>
          (pc = "reconciled" /\ pc' = "accounted")
    /\ counters'.ejects # counters.ejects =>
          /\ pc = "accounted" /\ pc' = "menu"
          /\ counters'.ejects = counters.ejects + 1
          /\ UNCHANGED indexVars
          /\ \E out \in EjectOutcomes : out \in log'
    /\ (pc = "accounted" /\ pc' = "menu") =>
          counters'.ejects = counters.ejects + 1

C26_PhasesInOrder == [][C26_Step]_vars

\* a run whose transfer ended with a failing exit code has inserted rows,
\* and its eject failed: the rows are in the Index
C26_Witness ==
    /\ pc = "menu"
    /\ counters.ejects = 1
    /\ rc.returncode >= 8
    /\ <<"ERROR", "eject">> \in log
    /\ files_index # <<>>

\* C20: a missing external program fails the requested operation only: the
\* process never exits on the FileNotFoundError of a program it could not
\* start.
C20_MenuStaysAlive ==
    ~(pc = "exited" /\ <<"Traceback", "FileNotFoundError">> \in log)

\* the format tool is missing: the error is reported and the menu goes on
C20_Witness ==
    /\ pc = "menu"
    /\ "LtfsCmdFormat.exe" \notin tools
    /\ <<"ERROR", "LtfsCmdFormat.exe not found">> \in log
    /\ counters.formats = 1

(***************************************************************************)
(* Properties of search_files, under SpecSearch                            *)
(***************************************************************************)

\* the day of a row's backup_date
DayOf(r) == r.backup_date[1] - 48

\* the row is among the rows the call returned
Returned(r) == \E k \in 1..Len(call.ret) : call.ret[k] = r

\* the name contains the text
RECURSIVE ContainsText(_, _)
ContainsText(name, text) ==
    \/ (Len(name) >= Len(text) /\ SubSeq(name, 1, Len(text)) = text)
    \/ (name # <<>> /\ ContainsText(Tail(name), text))

\* the query has neither * nor ?
PlainQuery(q) == q # <<>> /\ \A i \in 1..Len(q) : q[i] \notin {"*", "?"}

\* C21: a search by dates alone returns every row whose day is within the
\* bounds, both ends included.
C21_DateRangeInclusive ==
    (call.fn = "search_files" /\ call.done /\ call.name_query = <<>>) =>
        \A i \in 1..Len(files_index) :
            (/\ call.date_from # <<>> => call.date_from[1] - 48 <= DayOf(files_index[i])
             /\ call.date_to # <<>> => DayOf(files_index[i]) <= call.date_to[1] - 48)
                => Returned(files_index[i])

\* a search with a lower bound alone returned a row of the bound's day
C21_Witness ==
    /\ call.fn = "search_files" /\ call.done
    /\ call.name_query = <<>> /\ call.date_to = <<>> /\ call.date_from # <<>>
    /\ \E i \in 1..Len(files_index) :
          /\ DayOf(files_index[i]) = call.date_from[1] - 48
          /\ Returned(files_index[i])

\* C22: a name query without * and ? returns every row whose file name
\* contains the query text.
C22_PlainQueryIsSubstring ==
    (call.fn = "search_files" /\ call.done /\ PlainQuery(call.name_query)
        /\ call.date_from = <<>> /\ call.date_to = <<>>) =>
        \A i \in 1..Len(files_index) :
            ContainsText(files_index[i].file_name, call.name_query)
                => Returned(files_index[i])

\* the query X returned the row of IX1
C22_Witness ==
    /\ call.fn = "search_files" /\ call.done
    /\ call.name_query = <<"X">>
    /\ \E i \in 1..Len(files_index) :
          /\ files_index[i].file_name = <<"I", "X", "1">>
          /\ Returned(files_index[i])

\* the query is a text followed by one *
PrefixQuery(q) ==
    /\ Len(q) >= 2
    /\ q[Len(q)] = "*"
    /\ PlainQuery(SubSeq(q, 1, Len(q) - 1))

\* the name starts with the text, letters compared without their case
StartsWith(name, text) ==
    /\ Len(name) >= Len(text)
    /\ \A k \in 1..Len(text) : Upper(name[k]) = Upper(text[k])

\* C23: a pattern P* returns exactly the rows whose file name starts with the
\* text P (the case of letters aside).
C23_PrefixPatternExact ==
    (call.fn = "search_files" /\ call.done /\ PrefixQuery(call.name_query)
        /\ call.date_from = <<>> /\ call.date_to = <<>>) =>
        \A i \in 1..Len(files_index) :
            Returned(files_index[i]) <=>
                StartsWith(files_index[i].file_name,
                           SubSeq(call.name_query, 1, Len(call.name_query) - 1))

\* the pattern I_* returned the row of I_1 and not the row of TI_1
C23_Witness ==
    /\ call.fn = "search_files" /\ call.done
    /\ call.name_query = <<"I", "_", "*">>
    /\ \E i, j \in 1..Len(files_index) :
          /\ files_index[i].file_name = <<"I", "_", "1">>
          /\ Returned(files_index[i])
          /\ files_index[j].file_name = <<"T", "I", "_", "1">>
          /\ ~Returned(files_index[j])

(***************************************************************************)
(* Properties of LTOAnalyzer.analyze, under SpecAnalyze                    *)
(***************************************************************************)

\* the number of readable files of the analyzed folder with lo <= size < hi
CountIn(lo, hi) ==
    LET In(f) == ~f.bad /\ lo <= f.size /\ f.size < hi
    IN Len(SelectSeq(call.files, In))

\* C24: each readable file is counted in the one bucket of its size and an
\* unreadable file in none, so the five counts add up to the reported total.
C24_BucketsPartitionTotal ==
    (call.fn = "analyze" /\ call.done) =>
        /\ call.ret.bins.Tiny + call.ret.bins.Small + call.ret.bins.Medium
              + call.ret.bins.Large + call.ret.bins.Huge = call.ret.total_files
        /\ call.ret.total_files = CountIn(0, 1024 * Mega + 1)
        /\ call.ret.bins.Tiny = CountIn(0, Mega)
        /\ call.ret.bins.Small = CountIn(Mega, 10 * Mega)
        /\ call.ret.bins.Medium = CountIn(10 * Mega, 100 * Mega)
        /\ call.ret.bins.Large = CountIn(100 * Mega, 1024 * Mega)
        /\ call.ret.bins.Huge = CountIn(1024 * Mega, 1024 * Mega + 1)

\* a folder with an unreadable file and files in two buckets was analyzed
C24_Witness ==
    /\ call.fn = "analyze" /\ call.done
    /\ \E k \in 1..Len(call.files) : call.files[k].bad
    /\ call.ret.bins.Small > 0
    /\ call.ret.bins.Huge > 0

\* C25: analyze returns true exactly when more than 30% of the counted files
\* are below the threshold; at exactly 30% and for no files it returns false.
C25_PackAbove30Percent ==
    (call.fn = "analyze" /\ call.done) =>
        (call.ret.recommend <=>
            10 * CountIn(0, call.threshold_mb * Mega) > 3 * CountIn(0, 1024 * Mega + 1))

\* three of ten counted files are below the threshold: direct copy
C25_Witness ==
    /\ call.fn = "analyze" /\ call.done
    /\ call.ret.total_files = 10
    /\ call.ret.files_under_threshold = 3
    /\ ~call.ret.recommend


(***************************************************************************)
(* Properties of the bulk restore, under SpecBulk                          *)
(***************************************************************************)

\* the lines printed by the last restore for the records of a container
ReportLines == {last_restore.report[k] : k \in 1..Len(last_restore.report)}

\* the file or the container of the record is on the medium
OnMedium(r) ==
    NormPath(IF r.is_packed THEN r.container_name ELSE r.stored_path) \in DOMAIN tape

\* C28: a bulk restore whose containers and loose files are all on the medium
\* runs to its end whatever happens to single records: every record gets its
\* line, a record whose member is not in the container is reported and the
\* others are still extracted, and a file whose hash differs from the record's
\* (or whose record has no hash) stays in the restore directory.
C28_Step ==
    (/\ counters'.restores = counters.restores + 1
     /\ last_restore'.bulk
     /\ \A k \in 1..Len(last_restore'.recs) : OnMedium(last_restore'.recs[k]))
    => /\ last_restore'.outcome = "done"
       /\ Len(last_restore'.report) = Len(last_restore'.recs)
       /\ \A k \in 1..Len(last_restore'.recs) :
             \E j \in 1..Len(last_restore'.report) :
                 last_restore'.report[j].rec = last_restore'.recs[k]
       /\ \A j \in 1..Len(last_restore'.report) :
             last_restore'.report[j].line # "not found"
             => <<last_restore'.report[j].rec.file_name>> \in DOMAIN restore_dir'

C28_BulkRestoreContinuesPastProblems == [][C28_Step]_vars

\* a bulk restore has reported a missing member and a hash mismatch, and has
\* extracted a record that came after the missing one in the same container
C28_Witness ==
    /\ last_restore.bulk
    /\ last_restore.outcome = "done"
    /\ \E k, j \in 1..Len(last_restore.report) :
          /\ k < j
          /\ last_restore.report[k].line = "not found"
          /\ last_restore.report[j].line = "OK"
          /\ last_restore.report[j].rec.container_name
                 = last_restore.report[k].rec.container_name
          /\ <<last_restore.report[j].rec.file_name>> \in DOMAIN restore_dir
    /\ \E k \in 1..Len(last_restore.report) :
          /\ last_restore.report[k].line = "FAIL"
          /\ <<last_restore.report[k].rec.file_name>> \in DOMAIN restore_dir

(***************************************************************************)
(* Properties of LTOPacker.run, under SpecPack                              *)
(***************************************************************************)

\* LTOPacker.run has returned the metadata of a pass over a cleared staging area
PackedFresh == pc = "packed" /\ FreshPass /\ ~packer_ret.none

\* the metadata entries of the source file at relative path p
EntriesOf(md, p) ==
    {i \in 1..Len(md) : md[i].original_path = Join(SourceDir, p)}

\* the places (container, position) where the file at p is a member
MemberPlaces(tree, p) ==
    { <<b, k>> \in ((DOMAIN tree) \cap BundleRels) \X (1..Len(PathSeq)) :
        /\ k <= Len(tree[b].members)
        /\ tree[b].members[k].name = ZipArcName(p) }

\* p has exactly one entry, a packed one with stored path p, and is a member
\* of exactly one container, the one the entry names
PackedOnce(md, tree, p) ==
    /\ Cardinality(EntriesOf(md, p)) = 1
    /\ \A i \in EntriesOf(md, p) :
         /\ md[i].is_packed
         /\ md[i].stored_path = p
         /\ Cardinality(MemberPlaces(tree, p)) = 1
         /\ \A pl \in MemberPlaces(tree, p) : pl[1] = md[i].container_name

\* p has exactly one entry, a loose one
LooseOnce(md, p) ==
    /\ Cardinality(EntriesOf(md, p)) = 1
    /\ \A i \in EntriesOf(md, p) : ~md[i].is_packed /\ md[i].stored_path = p

C7_NoContainerExceedsMax ==
    \A b \in (DOMAIN staging) \cap BundleRels :
        staging[b].size <= max_zip_size_mb

\* C8: two passes over the same unchanged source tree, each from a cleared
\* staging area, return the same metadata list in the same order (so every
\* file has the same container name and stored path) and build the same
\* containers with the same members in the same order.
C8_Deterministic ==
    (PackedFresh /\ prev_pack.valid) =>
        /\ packer_ret.list = prev_pack.metadata
        /\ Containers(staging) = prev_pack.containers

\* C8 witness: a second pass has finished, with two containers and a loose file
C8_Witness ==
    /\ PackedFresh
    /\ prev_pack.valid
    /\ counters.packs = 2
    /\ zip_idx = 2
    /\ \E i \in 1..Len(packer_ret.list) : ~packer_ret.list[i].is_packed

\* C27: after a pass from a cleared staging area every container left in the
\* staging tree has at least one member and is named by at least one packed
\* metadata entry.
C27_NoEmptyContainerLeft ==
    PackedFresh =>
        \A b \in (DOMAIN staging) \cap BundleRels :
            /\ staging[b].members # <<>>
            /\ \E i \in 1..Len(packer_ret.list) :
                  /\ packer_ret.list[i].is_packed
                  /\ packer_ret.list[i].container_name = b

\* the walk ended with nothing in the open container: it was discarded, and a
\* container sealed before it is left with its files
C27_Witness ==
    /\ PackedFresh
    /\ files_in_current_zip = 0
    /\ zip_idx = 2
    /\ BundleRel(2) \notin DOMAIN staging
    /\ BundleRel(1) \in DOMAIN staging
    /\ staging[BundleRel(1)].members # <<>>

====
